---------------------------- MODULE Spec2Model ----------------------------
(***************************************************************************)
(* Vibe-to-Spec Transmuter: the response-normalization and schema-repair   *)
(* pipeline of src/src/lib/gemini.js.                                      *)
(*                                                                         *)
(* JavaScript values are modelled as tagged records:                      *)
(*   undefined  [t |-> "undef"]        null    [t |-> "null"]              *)
(*   boolean    [t |-> "bool", b]      number  [t |-> "num", n10]          *)
(*   string     [t |-> "str", s]       array   [t |-> "arr", a]            *)
(*   object     [t |-> "obj", o]       (o: a function from own keys)       *)
(* A number is kept in tenths (n10 = floor(10 * x)), which is exact for    *)
(* what the code does with numbers: x !== 0 and Math.round(x).             *)
(* A string is a sequence of atoms.  The atom " " is white space; every    *)
(* other atom is a run of non-white-space text.  The Korean keys and       *)
(* texts of the source are written as ASCII glosses.                      *)
(***************************************************************************)
EXTENDS Integers, Sequences, FiniteSets, TLC

\* ------------------------------------------------------------------------
\* JavaScript values
\* ------------------------------------------------------------------------
Undef == [t |-> "undef"]
JNull == [t |-> "null"]
JBool(b) == [t |-> "bool", b |-> b]
JNum(n) == [t |-> "num", n10 |-> n]
JInt(i) == JNum(10 * i)
JStr(s) == [t |-> "str", s |-> s]
JArr(a) == [t |-> "arr", a |-> a]
JObj(f) == [t |-> "obj", o |-> f]
EmptyObj == JObj([k \in {} |-> JNull])
\* The value a function throws with (a TypeError), in place of a result.
Thrown == [t |-> "throw"]

\* obj[key] on an object: the own property, or undefined.
Get(obj, key) ==
  IF key \in DOMAIN obj.o THEN obj.o[key] ELSE Undef

\* a ?? b
Coalesce(a, b) ==
  IF a.t \in {"undef", "null"} THEN b ELSE a

\* A faulty property read: the legacy key is never consulted.
GetPrimaryOnly(obj, primary, legacy) ==
  Get(obj, primary)

\* Property read with a legacy fall-through: obj[primary] ?? obj[legacy].
GetEither(obj, primary, legacy) ==
  Coalesce(Get(obj, primary), Get(obj, legacy))

Min2(a, b) == IF a < b THEN a ELSE b
Max2(a, b) == IF a > b THEN a ELSE b

\* list.slice(0, n)
Slice(list, n) == SubSeq(list, 1, Min2(n, Len(list)))

\* ------------------------------------------------------------------------
\* Strings
\* ------------------------------------------------------------------------
SP == " "
NL == "\n"
WhiteSpace == {SP, NL}

RECURSIVE TrimStart(_)
TrimStart(s) ==
  IF s # <<>> /\ Head(s) \in WhiteSpace THEN TrimStart(Tail(s)) ELSE s

RECURSIVE TrimEnd(_)
TrimEnd(s) ==
  IF s # <<>> /\ s[Len(s)] \in WhiteSpace
  THEN TrimEnd(SubSeq(s, 1, Len(s) - 1))
  ELSE s

\* String.prototype.trim
Trim(s) == TrimEnd(TrimStart(s))

\* String.prototype.toLowerCase, atom by atom.
LowerAtom(a) ==
  CASE a = "TRUE" -> "true"
    [] a = "Yes" -> "yes"
    [] a = "Y" -> "y"
    [] a = "O" -> "o"
    [] a = "FALSE" -> "false"
    [] a = "No" -> "no"
    [] a = "N" -> "n"
    [] a = "X" -> "x"
    [] OTHER -> a

ToLowerCase(s) == [i \in 1..Len(s) |-> LowerAtom(s[i])]

Digits == <<"0", "1", "2", "3", "4", "5", "6", "7", "8", "9">>
DigitAtoms == {Digits[i] : i \in 1..10}
DigitValue(a) == (CHOOSE i \in 1..10 : Digits[i] = a) - 1

\* String(n) for an integer n >= 0.
RECURSIVE NatToString(_)
NatToString(n) ==
  IF n < 10 THEN <<Digits[n + 1]>>
  ELSE NatToString(n \div 10) \o <<Digits[(n % 10) + 1]>>

\* gemini.js:172  isObject
isObject(value) == value.t = "obj"

\* Array.isArray
IsArray(value) == value.t = "arr"

\* A faulty toSafeString: the string is returned as it came, untrimmed.
toSafeStringUntrimmed(value, fallback) ==
  IF value.t = "str" THEN value.s ELSE fallback

\* gemini.js:181  toSafeString (result: the atoms of the string)
toSafeString(value, fallback) ==
  IF value.t = "str" THEN Trim(value.s) ELSE fallback

\* gemini.js:189  toStringArray (result: a sequence of strings)
toStringArray(value) ==
  IF ~IsArray(value) THEN <<>>
  ELSE SelectSeq([i \in 1..Len(value.a) |-> toSafeString(value.a[i], <<>>)],
                 LAMBDA s : s # <<>>)

\* gemini.js:199  toFixedLengthStringArray
RECURSIVE PadTo(_, _, _)
PadTo(list, length, fallbackPrefix) ==
  IF Len(list) < length
  THEN PadTo(Append(list, fallbackPrefix \o <<SP>> \o NatToString(Len(list) + 1)),
             length, fallbackPrefix)
  ELSE list

\* A faulty toFixedLengthStringArray: the placeholders are numbered from 1
\* instead of carrying their position in the list.
toFixedLengthRenumbered(value, length, fallbackPrefix) ==
  LET list == Slice(toStringArray(value), length)
  IN  list \o [i \in 1..(length - Len(list)) |->
                 fallbackPrefix \o <<SP>> \o NatToString(i)]

\* A faulty toFixedLengthStringArray: the list is padded but never cut.
toFixedLengthUncut(value, length, fallbackPrefix) ==
  PadTo(toStringArray(value), length, fallbackPrefix)

toFixedLengthStringArray(value, length, fallbackPrefix) ==
  PadTo(Slice(toStringArray(value), length), length, fallbackPrefix)

\* A faulty toBoolean: JavaScript truthiness, Boolean(value).
toBooleanByTruthiness(value, fallback) ==
  CASE value.t = "bool" -> value.b
    [] value.t = "str" -> value.s # <<>>
    [] value.t = "num" -> value.n10 # 0
    [] value.t \in {"arr", "obj"} -> TRUE
    [] OTHER -> FALSE

\* gemini.js:211  toBoolean (fallback defaults to false)
TruthyTokens == {<<"true">>, <<"yes">>, <<"y">>, <<"1">>, <<"o">>,
                 <<"ko:allowed">>, <<"ko:possible">>}
FalsyTokens == {<<"false">>, <<"no">>, <<"n">>, <<"0">>, <<"x">>,
                <<"ko:impossible">>, <<"ko:forbidden">>}

toBoolean(value, fallback) ==
  CASE value.t = "bool" -> value.b
    [] value.t = "str" ->
         LET normalized == ToLowerCase(Trim(value.s))
         IN  IF normalized \in TruthyTokens THEN TRUE
             ELSE IF normalized \in FalsyTokens THEN FALSE
             ELSE fallback
    [] value.t = "num" -> value.n10 # 0
    [] OTHER -> fallback

\* ------------------------------------------------------------------------
\* Number(value): ECMAScript ToNumber on a JSON-born value
\* ------------------------------------------------------------------------
NaN == [k |-> "nan"]
Infinite == [k |-> "inf"]
Finite(n) == [k |-> "num", n10 |-> n]
NumThrow == [k |-> "throw"]

IsDigitSeq(s) == \A i \in 1..Len(s) : s[i] \in DigitAtoms

RECURSIVE DigitsToNat(_)
DigitsToNat(s) ==
  IF s = <<>> THEN 0
  ELSE 10 * DigitsToNat(SubSeq(s, 1, Len(s) - 1)) + DigitValue(s[Len(s)])

\* An unsigned decimal literal "ddd" or "ddd.ddd", in tenths rounded down;
\* rest tells whether digits beyond the first decimal are non-zero.
UnsignedDecimal(s) ==
  LET dots == {i \in 1..Len(s) : s[i] = "."}
  IN  IF dots = {}
      THEN IF s # <<>> /\ IsDigitSeq(s)
           THEN [ok |-> TRUE, n10 |-> 10 * DigitsToNat(s), rest |-> FALSE]
           ELSE [ok |-> FALSE, n10 |-> 0, rest |-> FALSE]
      ELSE LET d == CHOOSE i \in dots : TRUE
               whole == SubSeq(s, 1, d - 1)
               frac == SubSeq(s, d + 1, Len(s))
           IN  IF Cardinality(dots) = 1 /\ IsDigitSeq(whole) /\ IsDigitSeq(frac)
                  /\ (whole # <<>> \/ frac # <<>>)
               THEN [ok |-> TRUE,
                     n10 |-> 10 * DigitsToNat(whole)
                             + (IF frac = <<>> THEN 0 ELSE DigitValue(frac[1])),
                     rest |-> \E i \in 2..Len(frac) : frac[i] # "0"]
               ELSE [ok |-> FALSE, n10 |-> 0, rest |-> FALSE]

\* StringToNumber of the decimal forms: white space is trimmed, "" is 0,
\* [+-]digits[.digits], [+-]Infinity; every other text is NaN.
StringToNumber(str) ==
  LET s == Trim(str)
      signed == s # <<>> /\ s[1] \in {"-", "+"}
      neg == s # <<>> /\ s[1] = "-"
      body == IF signed THEN Tail(s) ELSE s
      u == UnsignedDecimal(body)
  IN  IF s = <<>> THEN Finite(0)
      ELSE IF body = <<"Infinity">> THEN Infinite
      ELSE IF ~u.ok THEN NaN
      ELSE IF neg THEN Finite(0 - u.n10 - (IF u.rest THEN 1 ELSE 0))
      ELSE Finite(u.n10)

\* Whether ToString(value) throws: a plain object whose own "toString" is a
\* JSON value (never callable) has no primitive form; Array.prototype.join
\* converts every element that is neither null nor undefined.
RECURSIVE ToStringThrows(_)
ToStringThrows(value) ==
  CASE value.t = "obj" -> "toString" \in DOMAIN value.o
    [] value.t = "arr" -> \E i \in 1..Len(value.a) : ToStringThrows(value.a[i])
    [] OTHER -> FALSE

RECURSIVE NumberOf(_)
NumberOf(value) ==
  CASE value.t = "undef" -> NaN
    [] value.t = "null" -> Finite(0)
    [] value.t = "bool" -> Finite(IF value.b THEN 10 ELSE 0)
    [] value.t = "num" -> Finite(value.n10)
    [] value.t = "str" -> StringToNumber(value.s)
    [] value.t = "obj" -> IF ToStringThrows(value) THEN NumThrow ELSE NaN
    [] value.t = "arr" ->
         IF ToStringThrows(value) THEN NumThrow
         ELSE IF Len(value.a) = 0 THEN Finite(0)
         ELSE IF Len(value.a) > 1 THEN NaN
         ELSE LET x == value.a[1]
              IN  CASE x.t \in {"null", "undef"} -> Finite(0)
                    [] x.t = "bool" -> NaN
                    [] x.t = "obj" -> NaN
                    [] OTHER -> NumberOf(x)

\* gemini.js:226  toIntegerInRange: null for a non-finite number, else the
\* number rounded (Math.round(x) = floor(x + 0.5)) and clamped.
\* A faulty toIntegerInRange: the number is clamped but never rounded.
toNumberInRange(value, min, max) ==
  LET num == NumberOf(value)
  IN  CASE num.k = "throw" -> Thrown
        [] num.k \in {"nan", "inf"} -> JNull
        [] OTHER -> JNum(Min2(10 * max, Max2(10 * min, num.n10)))

toIntegerInRange(value, min, max) ==
  LET num == NumberOf(value)
  IN  CASE num.k = "throw" -> Thrown
        [] num.k \in {"nan", "inf"} -> JNull
        [] OTHER -> LET rounded == (num.n10 + 5) \div 10
                    IN  JInt(Min2(max, Max2(min, rounded)))

\* ------------------------------------------------------------------------
\* gemini.js:15  K: the schema keys (Korean in the source), and the legacy
\* English keys that the normalizer still accepts
\* ------------------------------------------------------------------------
K_SUMMARY == "ko:one_line_summary"
K_ROLES == "ko:user_roles"
K_ROLE == "ko:role"
K_DESCRIPTION == "ko:description"
K_FEATURES == "ko:core_features"
K_MUST == "ko:must"
K_NICE == "ko:nice_to_have"
K_FLOW == "ko:screen_flow_5_steps"
K_INPUT_FIELDS == "ko:input_data_fields"
K_NAME == "ko:name"
K_TYPE == "ko:type"
K_EXAMPLE == "ko:example"
K_PERMISSIONS == "ko:permission_rules"
K_READ == "ko:read"
K_CREATE == "ko:create"
K_UPDATE == "ko:update"
K_DELETE == "ko:delete"
K_NOTES == "ko:notes"
K_AMBIGUITIES == "ko:exceptions_ambiguities"
K_MISSING == "ko:missing_information"
K_QUESTIONS == "ko:confirm_questions_3"
K_RISKS == "ko:risks_pitfalls_3"
K_TESTS == "ko:test_scenarios_3"
K_NEXT == "ko:today_tasks_3"
K_PROBLEM_FRAME == "ko:problem_frame_5"
K_WHO == "ko:who"
K_WHEN == "ko:when"
K_WHAT == "ko:what"
K_WHY == "ko:why"
K_SUCCESS == "ko:success_criteria"
K_INTERVIEW == "ko:interview_mode"
K_FOLLOW_UP == "ko:follow_up_questions_3"
K_COMPLETENESS == "ko:completeness_diagnosis"
K_SCORE == "ko:score_0_100"
K_WARNINGS == "ko:missing_warnings"
K_REQUEST_CONVERTER == "ko:request_conversion"
K_RAW_REQUEST == "ko:original"
K_SHORT_REQUEST == "ko:short_request"
K_STANDARD_REQUEST == "ko:standard_request"
K_DETAILED_REQUEST == "ko:detailed_request"
K_IMPACT == "ko:change_impact"
K_IMPACT_SCREENS == "ko:screens"
K_IMPACT_PERMISSIONS == "ko:permissions"
K_IMPACT_TESTS == "ko:tests"
K_LAYER_GUIDE == "ko:layer_guide"
K_LAYER == "ko:layer"
K_GOAL == "ko:goal"
K_OUTPUT == "ko:output"
K_STANDARD_OUTPUT == "ko:standard_output"

\* Reads of a normalized document.
Field(doc, key) == doc.o[key]
Sub(doc, key, sub) == doc.o[key].o[sub]
StrList(value) == [i \in 1..Len(value.a) |-> value.a[i].s]
JStrList(list) == JArr([i \in 1..Len(list) |-> JStr(list[i])])

\* gemini.js:261  defaultLayerGuide
LayerEntry(layer, goal, output) ==
  JObj((K_LAYER :> JStr(layer)) @@ (K_GOAL :> JStr(goal)) @@ (K_OUTPUT :> JStr(output)))

defaultLayerGuide ==
  << LayerEntry(<<"L1">>, <<"ko:structure-the-problem">>, <<"ko:problem-frame-5">>),
     LayerEntry(<<"L2">>, <<"ko:translate-into-a-buildable-spec">>,
                <<"ko:roles/features/flow/data/permissions">>),
     LayerEntry(<<"L3">>, <<"ko:make-the-request-deliverable">>,
                <<"ko:short/standard/detailed-requests">>),
     LayerEntry(<<"L4">>, <<"ko:verify-gaps-and-impact">>,
                <<"ko:score/warnings/impact">>),
     LayerEntry(<<"L5">>, <<"ko:accumulate-learning">>,
                <<"ko:today-tasks/next-retrospective">>) >>

LayerGuideLength == 5

\* gemini.js:275  normalizeLayerGuide
RECURSIVE PadLayers(_)
PadLayers(normalized) ==
  IF Len(normalized) < LayerGuideLength
  THEN PadLayers(Append(normalized, defaultLayerGuide[Len(normalized) + 1]))
  ELSE normalized

normalizeLayerGuide(value) ==
  LET source == IF IsArray(value) THEN value.a ELSE <<>>
      \* idx is 1-based here; the source's 'L${idx + 1}' is "L" idx.
      entry(idx) ==
        LET item == source[idx]
            safeItem == IF isObject(item) THEN item ELSE EmptyObj
            hasDefault == idx <= Len(defaultLayerGuide)
            fbLayer == IF hasDefault THEN defaultLayerGuide[idx].o[K_LAYER].s
                       ELSE <<"L">> \o NatToString(idx)
            fbGoal == IF hasDefault THEN defaultLayerGuide[idx].o[K_GOAL].s
                      ELSE <<"ko:goal-definition-needed">>
            fbOutput == IF hasDefault THEN defaultLayerGuide[idx].o[K_OUTPUT].s
                        ELSE <<"ko:output-definition-needed">>
        IN  LayerEntry(toSafeString(GetEither(safeItem, K_LAYER, "layer"), fbLayer),
                       toSafeString(GetEither(safeItem, K_GOAL, "goal"), fbGoal),
                       toSafeString(GetEither(safeItem, K_OUTPUT, "output"), fbOutput))
      mapped == [idx \in 1..Len(source) |-> entry(idx)]
      kept == SelectSeq(mapped, LAMBDA item :
                item.o[K_LAYER].s # <<>> \/ item.o[K_GOAL].s # <<>>
                \/ item.o[K_OUTPUT].s # <<>>)
  IN  JArr(PadLayers(Slice(kept, LayerGuideLength)))

\* gemini.js:302  buildFallbackRequests
buildFallbackRequests(summary, mustItems, tests) ==
  LET headline == IF summary # <<>> THEN summary ELSE <<"ko:feature-improvement-request">>
      must == IF mustItems # <<>> /\ mustItems[1] # <<>> THEN mustItems[1]
              ELSE <<"ko:core-feature">>
      test == IF tests # <<>> /\ tests[1] # <<>> THEN tests[1]
              ELSE <<"ko:normal-scenario-test">>
  IN  (K_SHORT_REQUEST :> (must \o <<SP, "ko:please-implement-this-feature-today.">>))
      @@ (K_STANDARD_REQUEST :>
            (headline \o <<".", SP, "ko:priority-is", SP>> \o must
             \o <<"ko:-and-done-criterion-is", SP>> \o test \o <<SP, "ko:passing.">>))
      @@ (K_DETAILED_REQUEST :>
            (headline \o <<NL, "-", SP, "ko:implement-first:", SP>> \o must
             \o <<NL, "-", SP, "ko:check-criterion:", SP>> \o test
             \o <<NL, "-", SP, "ko:on-failure:-separate-error-cases.">>))

\* The warning texts of computeMissingWarnings, in their fixed order.
W_SUMMARY == <<"ko:warn-summary-empty">>
W_WHO == <<"ko:warn-who-empty">>
W_WHAT == <<"ko:warn-what-empty">>
W_SUCCESS == <<"ko:warn-success-criteria-empty">>
W_ROLES == <<"ko:warn-roles-empty">>
W_MUST == <<"ko:warn-must-features-empty">>
W_INPUT_FIELDS == <<"ko:warn-input-fields-empty">>
W_PERMISSIONS == <<"ko:warn-permission-rules-empty">>
W_TESTS == <<"ko:warn-test-scenarios-empty">>
W_STANDARD_REQUEST == <<"ko:warn-standard-request-empty">>

\* A faulty computeMissingWarnings: it reports the first missing part only.
computeFirstMissingWarning(spec) ==
  IF Field(spec, K_SUMMARY).s = <<>> THEN <<W_SUMMARY>>
  ELSE IF Sub(spec, K_PROBLEM_FRAME, K_WHO).s = <<>> THEN <<W_WHO>>
  ELSE IF Sub(spec, K_PROBLEM_FRAME, K_WHAT).s = <<>> THEN <<W_WHAT>>
  ELSE IF Sub(spec, K_PROBLEM_FRAME, K_SUCCESS).s = <<>> THEN <<W_SUCCESS>>
  ELSE IF Len(Field(spec, K_ROLES).a) = 0 THEN <<W_ROLES>>
  ELSE IF Len(Sub(spec, K_FEATURES, K_MUST).a) = 0 THEN <<W_MUST>>
  ELSE IF Len(Field(spec, K_INPUT_FIELDS).a) = 0 THEN <<W_INPUT_FIELDS>>
  ELSE IF Len(Field(spec, K_PERMISSIONS).a) = 0 THEN <<W_PERMISSIONS>>
  ELSE IF Len(Field(spec, K_TESTS).a) = 0 THEN <<W_TESTS>>
  ELSE IF Sub(spec, K_REQUEST_CONVERTER, K_STANDARD_REQUEST).s = <<>>
       THEN <<W_STANDARD_REQUEST>>
  ELSE <<>>

\* gemini.js:317  computeMissingWarnings
computeMissingWarnings(spec) ==
  LET when(cond, w) == IF cond THEN <<w>> ELSE <<>>
  IN  when(Field(spec, K_SUMMARY).s = <<>>, W_SUMMARY)
      \o when(Sub(spec, K_PROBLEM_FRAME, K_WHO).s = <<>>, W_WHO)
      \o when(Sub(spec, K_PROBLEM_FRAME, K_WHAT).s = <<>>, W_WHAT)
      \o when(Sub(spec, K_PROBLEM_FRAME, K_SUCCESS).s = <<>>, W_SUCCESS)
      \o when(Len(Field(spec, K_ROLES).a) = 0, W_ROLES)
      \o when(Len(Sub(spec, K_FEATURES, K_MUST).a) = 0, W_MUST)
      \o when(Len(Field(spec, K_INPUT_FIELDS).a) = 0, W_INPUT_FIELDS)
      \o when(Len(Field(spec, K_PERMISSIONS).a) = 0, W_PERMISSIONS)
      \o when(Len(Field(spec, K_TESTS).a) = 0, W_TESTS)
      \o when(Sub(spec, K_REQUEST_CONVERTER, K_STANDARD_REQUEST).s = <<>>,
              W_STANDARD_REQUEST)

FlowLength == 5
TripleLength == 3

\* gemini.js:338  computeScoreFromSpec
ScoreChecks(spec) ==
  << Field(spec, K_SUMMARY).s # <<>>,
     Sub(spec, K_PROBLEM_FRAME, K_WHO).s # <<>>,
     Sub(spec, K_PROBLEM_FRAME, K_WHAT).s # <<>>,
     Sub(spec, K_PROBLEM_FRAME, K_SUCCESS).s # <<>>,
     Len(Field(spec, K_ROLES).a) > 0,
     Len(Sub(spec, K_FEATURES, K_MUST).a) > 0,
     Len(Field(spec, K_FLOW).a) = FlowLength,
     Len(Field(spec, K_INPUT_FIELDS).a) > 0,
     Len(Field(spec, K_PERMISSIONS).a) > 0,
     Len(Field(spec, K_TESTS).a) = TripleLength >>

\* A faulty computeScoreFromSpec: the two checks that always pass are left
\* out of the pass rate.
computeScoreWithoutFixedChecks(spec) ==
  LET checks == ScoreChecks(spec)
      counted == (1..Len(checks)) \ {7, 10}
      passed == Cardinality({i \in counted : checks[i]})
  IN  (2 * 100 * passed + Cardinality(counted)) \div (2 * Cardinality(counted))

computeScoreFromSpec(spec) ==
  LET checks == ScoreChecks(spec)
      passed == Cardinality({i \in 1..Len(checks) : checks[i]})
  \* Math.round((passed / checks.length) * 100)
  IN  (2 * 100 * passed + Len(checks)) \div (2 * Len(checks))

\* Placeholders of normalizeStandardOutput (gemini.js:991-997).
PH_SUMMARY == <<"ko:summary-needed.">>
PH_WHO == <<"ko:main-user-definition-needed">>
PH_WHEN == <<"ko:usage-time-definition-needed">>
PH_WHAT == <<"ko:task-definition-needed">>
PH_WHY == <<"ko:background-definition-needed">>
PH_SUCCESS == <<"ko:success-criteria-definition-needed">>

\* Fallback labels of the fixed-length lists.
L_INTERVIEW == <<"ko:required-info-question">>
L_FLOW == <<"ko:user-flow-step">>
L_QUESTIONS == <<"ko:confirm-question">>
L_RISKS == <<"ko:risk">>
L_TESTS == <<"ko:test-scenario">>
L_NEXT == <<"ko:today-task">>

\* Array.from(new Set(list)): first occurrences, in order.
RECURSIVE Dedupe(_)
Dedupe(list) ==
  IF list = <<>> THEN <<>>
  ELSE LET init == Dedupe(SubSeq(list, 1, Len(list) - 1))
           last == list[Len(list)]
       IN  IF \E i \in 1..Len(init) : init[i] = last THEN init ELSE Append(init, last)

\* A faulty buildRequiredInterviewQuestions: the fallback questions are
\* left out, so missing questions are padded with the label only.
interviewQuestionsFromSourceOnly(problemFrame, interviewSource, ambiguitiesSource) ==
  LET missing == toStringArray(GetEither(ambiguitiesSource, K_MISSING, "missing_information"))
      sourceQuestions ==
        toStringArray(Coalesce(Get(interviewSource, K_FOLLOW_UP),
                               Coalesce(Get(interviewSource, "follow_up_questions"),
                                        Get(interviewSource, "questions"))))
        \o toStringArray(GetEither(ambiguitiesSource, K_QUESTIONS, "questions"))
        \o [i \in 1..Len(missing) |->
              missing[i] \o <<SP, "ko:how-shall-we-settle-this-item?">>]
      deduped == Dedupe(SelectSeq([i \in 1..Len(sourceQuestions) |-> Trim(sourceQuestions[i])],
                                  LAMBDA q : q # <<>>))
  IN  toFixedLengthStringArray(JStrList(deduped), TripleLength, L_INTERVIEW)

\* gemini.js:359  buildRequiredInterviewQuestions
buildRequiredInterviewQuestions(problemFrame, interviewSource, ambiguitiesSource) ==
  LET missing == toStringArray(GetEither(ambiguitiesSource, K_MISSING, "missing_information"))
      sourceQuestions ==
        toStringArray(Coalesce(Get(interviewSource, K_FOLLOW_UP),
                               Coalesce(Get(interviewSource, "follow_up_questions"),
                                        Get(interviewSource, "questions"))))
        \o toStringArray(GetEither(ambiguitiesSource, K_QUESTIONS, "questions"))
        \o [i \in 1..Len(missing) |->
              missing[i] \o <<SP, "ko:how-shall-we-settle-this-item?">>]
      needs(value, placeholder) == value = <<>> \/ value = placeholder
      fallbackQuestions ==
        << IF needs(problemFrame.o[K_WHO].s, PH_WHO)
           THEN <<"ko:who-is-the-core-user-of-this-feature?">> ELSE <<>>,
           IF needs(problemFrame.o[K_WHAT].s, PH_WHAT)
           THEN <<"ko:what-is-the-first-core-task?">> ELSE <<>>,
           IF needs(problemFrame.o[K_SUCCESS].s, PH_SUCCESS)
           THEN <<"ko:how-is-the-success-criterion-defined?">> ELSE <<>>,
           <<"ko:which-required-input-must-never-be-missing?">>,
           <<"ko:how-are-user-and-admin-permissions-split?">> >>
      all == sourceQuestions \o fallbackQuestions
      deduped == Dedupe(SelectSeq([i \in 1..Len(all) |-> Trim(all[i])],
                                  LAMBDA q : q # <<>>))
  IN  toFixedLengthStringArray(JStrList(deduped), TripleLength, L_INTERVIEW)

\* The container of a section: safe[primary] when it is an object, else
\* safe[legacy] when it is an object, else {}  (gemini.js:925-945).
ObjectSource(safe, primary, legacy) ==
  IF isObject(Get(safe, primary)) THEN Get(safe, primary)
  ELSE IF isObject(Get(safe, legacy)) THEN Get(safe, legacy)
  ELSE EmptyObj

\* The list of a section, by the same rule on arrays (gemini.js:947-976).
ArraySource(safe, primary, legacy) ==
  IF IsArray(Get(safe, primary)) THEN Get(safe, primary).a
  ELSE IF IsArray(Get(safe, legacy)) THEN Get(safe, legacy).a
  ELSE <<>>

SafeItem(item) == IF isObject(item) THEN item ELSE EmptyObj

\* gemini.js:950  roles
NormalizeRoles(rolesSource) ==
  LET mapped == [i \in 1..Len(rolesSource) |->
        LET safeItem == SafeItem(rolesSource[i])
        IN  JObj((K_ROLE :> JStr(toSafeString(GetEither(safeItem, K_ROLE, "role"), <<>>)))
                 @@ (K_DESCRIPTION :>
                       JStr(toSafeString(GetEither(safeItem, K_DESCRIPTION, "description"),
                                         <<>>))))]
  IN  SelectSeq(mapped, LAMBDA item :
        item.o[K_ROLE].s # <<>> \/ item.o[K_DESCRIPTION].s # <<>>)

\* gemini.js:963  inputFields
NormalizeInputFields(inputFieldsSource) ==
  LET mapped == [i \in 1..Len(inputFieldsSource) |->
        LET safeItem == SafeItem(inputFieldsSource[i])
        IN  JObj((K_NAME :> JStr(toSafeString(GetEither(safeItem, K_NAME, "name"), <<>>)))
                 @@ (K_TYPE :> JStr(toSafeString(GetEither(safeItem, K_TYPE, "type"), <<>>)))
                 @@ (K_EXAMPLE :>
                       JStr(toSafeString(GetEither(safeItem, K_EXAMPLE, "example"), <<>>))))]
  IN  SelectSeq(mapped, LAMBDA item :
        item.o[K_NAME].s # <<>> \/ item.o[K_TYPE].s # <<>> \/ item.o[K_EXAMPLE].s # <<>>)

\* A faulty permissions filter: an entry without role and notes is kept when
\* one of its CRUD flags is set.
NormalizePermissionsByFlags(permissionsSource) ==
  LET mapped == [i \in 1..Len(permissionsSource) |->
        LET safeItem == SafeItem(permissionsSource[i])
        IN  JObj((K_ROLE :> JStr(toSafeString(GetEither(safeItem, K_ROLE, "role"), <<>>)))
                 @@ (K_READ :> JBool(toBoolean(GetEither(safeItem, K_READ, "read"), FALSE)))
                 @@ (K_CREATE :>
                       JBool(toBoolean(GetEither(safeItem, K_CREATE, "create"), FALSE)))
                 @@ (K_UPDATE :>
                       JBool(toBoolean(GetEither(safeItem, K_UPDATE, "update"), FALSE)))
                 @@ (K_DELETE :>
                       JBool(toBoolean(GetEither(safeItem, K_DELETE, "delete"), FALSE)))
                 @@ (K_NOTES :>
                       JStr(toSafeString(GetEither(safeItem, K_NOTES, "notes"), <<>>))))]
  IN  SelectSeq(mapped, LAMBDA item :
        \/ item.o[K_ROLE].s # <<>> \/ item.o[K_NOTES].s # <<>>
        \/ item.o[K_READ].b \/ item.o[K_CREATE].b \/ item.o[K_UPDATE].b \/ item.o[K_DELETE].b)

\* gemini.js:977  permissions
NormalizePermissions(permissionsSource) ==
  LET mapped == [i \in 1..Len(permissionsSource) |->
        LET safeItem == SafeItem(permissionsSource[i])
        IN  JObj((K_ROLE :> JStr(toSafeString(GetEither(safeItem, K_ROLE, "role"), <<>>)))
                 @@ (K_READ :> JBool(toBoolean(GetEither(safeItem, K_READ, "read"), FALSE)))
                 @@ (K_CREATE :>
                       JBool(toBoolean(GetEither(safeItem, K_CREATE, "create"), FALSE)))
                 @@ (K_UPDATE :>
                       JBool(toBoolean(GetEither(safeItem, K_UPDATE, "update"), FALSE)))
                 @@ (K_DELETE :>
                       JBool(toBoolean(GetEither(safeItem, K_DELETE, "delete"), FALSE)))
                 @@ (K_NOTES :>
                       JStr(toSafeString(GetEither(safeItem, K_NOTES, "notes"), <<>>))))]
  IN  SelectSeq(mapped, LAMBDA item :
        item.o[K_ROLE].s # <<>> \/ item.o[K_NOTES].s # <<>>)

\* A faulty request choice: the synthesized variant replaces a supplied one.
RequestAlwaysFallback(request, fallback) ==
  fallback

\* gemini.js:1041-1054  a request variant left empty takes the fallback
RequestOrFallback(request, fallback) ==
  IF request # <<>> THEN request ELSE fallback

\* gemini.js:1056-1066  an impact list left empty is synthesized
ImpactScreens(given, flow) ==
  IF Len(given) = 0
  THEN [i \in 1..Len(flow) |-> flow[i] \o <<SP, "ko:screen-may-be-affected">>]
  ELSE given

ImpactPermissions(given, permissions) ==
  IF Len(given) = 0
  THEN IF Len(permissions) # 0
       THEN [i \in 1..Len(permissions) |->
               permissions[i].o[K_ROLE].s \o <<SP, "ko:permission-review-needed">>]
       ELSE << <<"ko:re-review-the-role-CRUD-matrix">> >>
  ELSE given

ImpactTests(given, tests) ==
  IF Len(given) = 0
  THEN [i \in 1..Len(tests) |-> tests[i] \o <<SP, "ko:verification-case-affected">>]
  ELSE given

ScoreMin == 0
ScoreMax == 100

\* A faulty completeness: the computed score is used even when the source
\* supplies one.
CompletenessComputedOnly(baseSpec, completenessSource) ==
  LET computedWarnings == computeMissingWarnings(baseSpec)
      providedWarnings ==
        toStringArray(GetEither(completenessSource, K_WARNINGS, "warnings"))
  IN  JObj((K_SCORE :> JInt(computeScoreFromSpec(baseSpec)))
           @@ (K_WARNINGS :> JStrList(IF Len(providedWarnings) # 0
                                      THEN providedWarnings
                                      ELSE computedWarnings)))

\* gemini.js:1068-1075  completeness: a provided score wins over the
\* computed one, provided warnings win over the computed ones
Completeness(baseSpec, completenessSource) ==
  LET computedWarnings == computeMissingWarnings(baseSpec)
      providedWarnings ==
        toStringArray(GetEither(completenessSource, K_WARNINGS, "warnings"))
      providedScore ==
        toIntegerInRange(GetEither(completenessSource, K_SCORE, "score"),
                         ScoreMin, ScoreMax)
  IN  IF providedScore.t = "throw" THEN Thrown
      ELSE JObj((K_SCORE :> Coalesce(providedScore, JInt(computeScoreFromSpec(baseSpec))))
                @@ (K_WARNINGS :> JStrList(IF Len(providedWarnings) # 0
                                           THEN providedWarnings
                                           ELSE computedWarnings)))

\* gemini.js:922  normalizeStandardOutput: the normalized document, or
\* Thrown when the function throws instead of returning.
normalizeStandardOutput(raw) ==
  LET safe == IF isObject(raw) THEN raw ELSE EmptyObj
      problemFrameSource == ObjectSource(safe, K_PROBLEM_FRAME, "problem_frame")
      interviewSource == ObjectSource(safe, K_INTERVIEW, "interview_mode")
      featuresSource == ObjectSource(safe, K_FEATURES, "core_features")
      ambiguitiesSource == ObjectSource(safe, K_AMBIGUITIES, "ambiguities")
      requestSource == ObjectSource(safe, K_REQUEST_CONVERTER, "request_converter")
      impactSource == ObjectSource(safe, K_IMPACT, "impact_preview")
      completenessSource == ObjectSource(safe, K_COMPLETENESS, "completeness")
      roles == NormalizeRoles(ArraySource(safe, K_ROLES, "users_and_roles"))
      inputFields == NormalizeInputFields(ArraySource(safe, K_INPUT_FIELDS, "input_fields"))
      permissions ==
        NormalizePermissions(ArraySource(safe, K_PERMISSIONS, "permission_matrix"))
      summary == toSafeString(GetEither(safe, K_SUMMARY, "one_line_summary"), PH_SUMMARY)
      problemFrame ==
        JObj((K_WHO :> JStr(toSafeString(GetEither(problemFrameSource, K_WHO, "who"), PH_WHO)))
             @@ (K_WHEN :>
                   JStr(toSafeString(GetEither(problemFrameSource, K_WHEN, "when"), PH_WHEN)))
             @@ (K_WHAT :>
                   JStr(toSafeString(GetEither(problemFrameSource, K_WHAT, "what"), PH_WHAT)))
             @@ (K_WHY :>
                   JStr(toSafeString(GetEither(problemFrameSource, K_WHY, "why"), PH_WHY)))
             @@ (K_SUCCESS :>
                   JStr(toSafeString(GetEither(problemFrameSource, K_SUCCESS,
                                               "success_criteria"), PH_SUCCESS))))
      interviewMode ==
        JObj(K_FOLLOW_UP :>
               JStrList(buildRequiredInterviewQuestions(problemFrame, interviewSource,
                                                        ambiguitiesSource)))
      must == toStringArray(GetEither(featuresSource, K_MUST, "must"))
      nice == toStringArray(GetEither(featuresSource, K_NICE, "nice_to_have"))
      flow == toFixedLengthStringArray(GetEither(safe, K_FLOW, "user_flow_steps"),
                                       FlowLength, L_FLOW)
      tests == toFixedLengthStringArray(GetEither(safe, K_TESTS, "test_scenarios"),
                                        TripleLength, L_TESTS)
      requestFallback == buildFallbackRequests(summary, must, tests)
      request(key, legacy) == toSafeString(GetEither(requestSource, key, legacy), <<>>)
      impact(key, legacy) == toStringArray(GetEither(impactSource, key, legacy))
      baseSpec ==
        (K_SUMMARY :> JStr(summary))
        @@ (K_PROBLEM_FRAME :> problemFrame)
        @@ (K_INTERVIEW :> interviewMode)
        @@ (K_ROLES :> JArr(roles))
        @@ (K_FEATURES :> JObj((K_MUST :> JStrList(must)) @@ (K_NICE :> JStrList(nice))))
        @@ (K_FLOW :> JStrList(flow))
        @@ (K_INPUT_FIELDS :> JArr(inputFields))
        @@ (K_PERMISSIONS :> JArr(permissions))
        @@ (K_AMBIGUITIES :>
              JObj((K_MISSING :>
                      JStrList(toStringArray(GetEither(ambiguitiesSource, K_MISSING,
                                                       "missing_information"))))
                   @@ (K_QUESTIONS :>
                         JStrList(toFixedLengthStringArray(
                           GetEither(ambiguitiesSource, K_QUESTIONS, "questions"),
                           TripleLength, L_QUESTIONS)))))
        @@ (K_RISKS :>
              JStrList(toFixedLengthStringArray(GetEither(safe, K_RISKS, "risks"),
                                                TripleLength, L_RISKS)))
        @@ (K_TESTS :> JStrList(tests))
        @@ (K_NEXT :>
              JStrList(toFixedLengthStringArray(GetEither(safe, K_NEXT, "next_steps_today"),
                                                TripleLength, L_NEXT)))
        @@ (K_REQUEST_CONVERTER :>
              JObj((K_RAW_REQUEST :>
                      JStr(toSafeString(GetEither(requestSource, K_RAW_REQUEST, "original"),
                                        summary)))
                   @@ (K_SHORT_REQUEST :>
                         JStr(RequestOrFallback(request(K_SHORT_REQUEST, "short"),
                                                requestFallback[K_SHORT_REQUEST])))
                   @@ (K_STANDARD_REQUEST :>
                         JStr(RequestOrFallback(request(K_STANDARD_REQUEST, "standard"),
                                                requestFallback[K_STANDARD_REQUEST])))
                   @@ (K_DETAILED_REQUEST :>
                         JStr(RequestOrFallback(request(K_DETAILED_REQUEST, "detailed"),
                                                requestFallback[K_DETAILED_REQUEST])))))
        @@ (K_IMPACT :>
              JObj((K_IMPACT_SCREENS :>
                      JStrList(ImpactScreens(impact(K_IMPACT_SCREENS, "screens"), flow)))
                   @@ (K_IMPACT_PERMISSIONS :>
                         JStrList(ImpactPermissions(impact(K_IMPACT_PERMISSIONS, "permissions"),
                                                    permissions)))
                   @@ (K_IMPACT_TESTS :>
                         JStrList(ImpactTests(impact(K_IMPACT_TESTS, "tests"), tests)))))
        @@ (K_LAYER_GUIDE :> normalizeLayerGuide(GetEither(safe, K_LAYER_GUIDE, "layer_guide")))
      completeness == Completeness(JObj(baseSpec), completenessSource)
  IN  IF completeness.t = "throw" THEN Thrown
      ELSE JObj(baseSpec @@ (K_COMPLETENESS :> completeness))

\* ------------------------------------------------------------------------
\* The legacy spelling of a payload: every current key renamed to its legacy
\* alias, at every level (the alias pairs of gemini.js:283-285, 361-363,
\* 925-1034)
\* ------------------------------------------------------------------------
AliasTable ==
  (K_SUMMARY :> "one_line_summary") @@ (K_PROBLEM_FRAME :> "problem_frame")
  @@ (K_WHO :> "who") @@ (K_WHEN :> "when") @@ (K_WHAT :> "what") @@ (K_WHY :> "why")
  @@ (K_SUCCESS :> "success_criteria")
  @@ (K_INTERVIEW :> "interview_mode") @@ (K_FOLLOW_UP :> "follow_up_questions")
  @@ (K_ROLES :> "users_and_roles") @@ (K_ROLE :> "role") @@ (K_DESCRIPTION :> "description")
  @@ (K_FEATURES :> "core_features") @@ (K_MUST :> "must") @@ (K_NICE :> "nice_to_have")
  @@ (K_FLOW :> "user_flow_steps")
  @@ (K_INPUT_FIELDS :> "input_fields") @@ (K_NAME :> "name") @@ (K_TYPE :> "type")
  @@ (K_EXAMPLE :> "example")
  @@ (K_PERMISSIONS :> "permission_matrix") @@ (K_READ :> "read") @@ (K_CREATE :> "create")
  @@ (K_UPDATE :> "update") @@ (K_DELETE :> "delete") @@ (K_NOTES :> "notes")
  @@ (K_AMBIGUITIES :> "ambiguities") @@ (K_MISSING :> "missing_information")
  @@ (K_QUESTIONS :> "questions")
  @@ (K_RISKS :> "risks") @@ (K_TESTS :> "test_scenarios") @@ (K_NEXT :> "next_steps_today")
  @@ (K_REQUEST_CONVERTER :> "request_converter") @@ (K_RAW_REQUEST :> "original")
  @@ (K_SHORT_REQUEST :> "short") @@ (K_STANDARD_REQUEST :> "standard")
  @@ (K_DETAILED_REQUEST :> "detailed")
  @@ (K_IMPACT :> "impact_preview") @@ (K_IMPACT_SCREENS :> "screens")
  @@ (K_IMPACT_PERMISSIONS :> "permissions") @@ (K_IMPACT_TESTS :> "tests")
  @@ (K_LAYER_GUIDE :> "layer_guide") @@ (K_LAYER :> "layer") @@ (K_GOAL :> "goal")
  @@ (K_OUTPUT :> "output")
  @@ (K_COMPLETENESS :> "completeness") @@ (K_SCORE :> "score") @@ (K_WARNINGS :> "warnings")

LegacyKey(k) == IF k \in DOMAIN AliasTable THEN AliasTable[k] ELSE k

RECURSIVE LegacyForm(_)
LegacyForm(value) ==
  CASE value.t = "obj" ->
         LET keys == DOMAIN value.o
             origin(lk) == CHOOSE k \in keys : LegacyKey(k) = lk
         IN  JObj([lk \in {LegacyKey(k) : k \in keys} |-> LegacyForm(value.o[origin(lk)])])
    [] value.t = "arr" -> JArr([i \in 1..Len(value.a) |-> LegacyForm(value.a[i])])
    [] OTHER -> value

\* ------------------------------------------------------------------------
\* Model output as the normalizer may receive it: any JSON value.  An object
\* carries at most MaxKeys sections of the schema (gemini.js:71 JSON_SCHEMA_HINT),
\* each with a well-formed, partial or ill-typed value.
\* ------------------------------------------------------------------------
MaxKeys == 2
MaxListLen == 6

Text(a) == JStr(<<a>>)
Padded(a) == JStr(<<SP, a, SP>>)
Blank == JStr(<<SP>>)
Items(prefix, n) == [i \in 1..n |-> JStr(<<prefix>> \o NatToString(i))]
Rec1(k1, v1) == JObj(k1 :> v1)
Rec2(k1, v1, k2, v2) == JObj((k1 :> v1) @@ (k2 :> v2))
Rec3(k1, v1, k2, v2, k3, v3) == JObj((k1 :> v1) @@ (k2 :> v2) @@ (k3 :> v3))

NonObjectInputs ==
  {JNull, JArr(<<>>), JArr(<<Rec1(K_SUMMARY, Text("s"))>>), JInt(7), Text("s"),
   JBool(TRUE), JBool(FALSE)}

ScoreInputs ==
  {JInt(150), JInt(0 - 5), JNum(495), JNum(0 - 5), JInt(90),
   JStr(<<"5", "0">>), JStr(<<SP, "7", ".", "5", SP>>), JStr(<<>>), Text("abc"),
   Text("Infinity"), JBool(TRUE), JArr(<<>>), JArr(<<JInt(5)>>),
   JArr(<<JInt(1), JInt(2)>>), EmptyObj, Rec1("toString", JInt(1)),
   JArr(<<Rec1("toString", Text("x"))>>)}

CrudInputs ==
  {JBool(TRUE), JBool(FALSE), JInt(1), JInt(0), Text("ko:allowed"), Text("ko:forbidden"),
   Padded("Yes"), Text("X"), Text("maybe"), JNull, JArr(<<>>)}

\* Permission rules that between them carry every kind of CRUD flag value.
CrudRule(role, read, create, update, delete) ==
  JObj((K_ROLE :> Text(role)) @@ (K_READ :> read) @@ (K_CREATE :> create)
       @@ (K_UPDATE :> update) @@ (K_DELETE :> delete))

CrudRules ==
  << CrudRule("r1", JBool(TRUE), JBool(FALSE), JInt(1), JInt(0)),
     CrudRule("r2", Text("true"), Padded("Yes"), Text("Y"), Text("1")),
     CrudRule("r3", Text("O"), Text("ko:allowed"), Text("ko:possible"), JNum(0 - 25)),
     CrudRule("r4", Text("FALSE"), Padded("No"), Text("n"), Text("0")),
     CrudRule("r5", Text("X"), Text("ko:impossible"), Text("ko:forbidden"), Text("maybe")),
     CrudRule("r6", JStr(<<>>), JNull, JArr(<<>>), EmptyObj),
     Rec2(K_ROLE, Text("r7"), K_DELETE, JArr(<<JBool(TRUE)>>)) >>

SectionKeys ==
  {K_SUMMARY, K_PROBLEM_FRAME, K_INTERVIEW, K_ROLES, K_FEATURES, K_FLOW, K_INPUT_FIELDS,
   K_PERMISSIONS, K_AMBIGUITIES, K_RISKS, K_TESTS, K_NEXT, K_REQUEST_CONVERTER, K_IMPACT,
   K_LAYER_GUIDE, K_COMPLETENESS}

SectionInputs(key) ==
  CASE key = K_SUMMARY -> {Padded("s"), Blank, JInt(7)}
    [] key = K_PROBLEM_FRAME ->
         {JObj((K_WHO :> Text("w1")) @@ (K_WHEN :> Text("w2")) @@ (K_WHAT :> Padded("w3"))
               @@ (K_WHY :> Text("w4")) @@ (K_SUCCESS :> Text("w5"))),
          Rec3(K_WHO, JStr(<<>>), K_WHAT, Blank, K_SUCCESS, JInt(1)),
          Rec2(K_WHO, JStr(PH_WHO), K_WHAT, Text("w3")),
          Rec3(K_WHO, Blank, K_WHAT, JStr(<<>>), K_SUCCESS, Blank),
          JArr(<<>>)}
    [] key = K_INTERVIEW ->
         {Rec1(K_FOLLOW_UP, JArr(Items("q", 4))),
          Rec1(K_FOLLOW_UP, JArr(<<Text("q1"), Padded("q1"), JInt(5)>>)),
          Text("garbage")}
    [] key = K_ROLES ->
         {JArr(<<Rec2(K_ROLE, Text("Admin"), K_DESCRIPTION, Padded("d")),
                 Rec2(K_ROLE, JStr(<<>>), K_DESCRIPTION, Blank),
                 Text("garbage"),
                 Rec2(K_ROLE, JInt(5), K_DESCRIPTION, Text("d2"))>>),
          Rec1(K_ROLE, Text("Admin"))}
    [] key = K_FEATURES ->
         {Rec2(K_MUST, JArr(Items("m", 2)), K_NICE, JArr(Items("n", 1))),
          Rec2(K_MUST, JArr(<<Blank, JInt(3)>>), K_NICE, Text("x"))}
    [] key = K_FLOW ->
         {JArr(Items("f", 2)), JArr(Items("f", MaxListLen)),
          JArr(<<Text("a"), JInt(5), JStr(<<>>), Padded("b"), JNull>>), Text("garbage")}
    [] key = K_INPUT_FIELDS ->
         {JArr(<<Rec3(K_NAME, Text("vendor"), K_TYPE, Text("string"), K_EXAMPLE, Text("e")),
                 EmptyObj,
                 Rec1(K_EXAMPLE, Padded("e2")),
                 JNull>>),
          JArr([i \in 1..(MaxListLen + 3) |-> Rec1(K_NAME, Items("x", i)[i])])}
    [] key = K_PERMISSIONS ->
         {JArr(<<JObj((K_ROLE :> Text("Admin")) @@ (K_READ :> Text("ko:allowed"))
                      @@ (K_CREATE :> JInt(1)) @@ (K_UPDATE :> JBool(TRUE))
                      @@ (K_DELETE :> Text("ko:forbidden"))),
                 Rec2(K_ROLE, JStr(<<>>), K_NOTES, Blank),
                 JInt(3),
                 Rec2(K_READ, JBool(TRUE), K_DELETE, Text("ko:allowed")),
                 Rec1(K_ROLE, Padded("Guest"))>>),
          JArr(<<Rec2(K_NOTES, Text("note"), K_READ, Padded("Yes"))>>),
          JArr(CrudRules),
          EmptyObj}
    [] key = K_AMBIGUITIES ->
         {Rec2(K_MISSING, JArr(<<Padded("x")>>), K_QUESTIONS, JArr(Items("c", 1))),
          Rec2(K_MISSING, JInt(1), K_QUESTIONS, JArr(Items("c", 4)))}
    [] key = K_RISKS -> {JArr(Items("r", 1)), JArr(Items("r", 4))}
    [] key = K_TESTS -> {JArr(Items("t", 1)), JArr(<<JInt(1), Padded("t")>>)}
    [] key = K_NEXT -> {JArr(Items("n", 3)), JNull}
    [] key = K_REQUEST_CONVERTER ->
         {JObj((K_RAW_REQUEST :> Padded("o")) @@ (K_SHORT_REQUEST :> Text("sh"))
               @@ (K_STANDARD_REQUEST :> Blank) @@ (K_DETAILED_REQUEST :> JInt(5))),
          Rec2(K_RAW_REQUEST, JStr(<<>>), K_STANDARD_REQUEST, Padded("st"))}
    [] key = K_IMPACT ->
         {Rec3(K_IMPACT_SCREENS, JArr(<<Padded("x")>>), K_IMPACT_PERMISSIONS, JArr(<<>>),
               K_IMPACT_TESTS, Text("garbage")),
          Rec1(K_IMPACT_PERMISSIONS, JArr(Items("p", 2)))}
    [] key = K_LAYER_GUIDE ->
         {JArr(<<JObj((K_LAYER :> JStr(<<>>)) @@ (K_GOAL :> Blank) @@ (K_OUTPUT :> JStr(<<>>))),
                 Rec1(K_LAYER, Text("X")),
                 JInt(1)>>),
          JArr([i \in 1..MaxListLen |-> Rec2(K_LAYER, Items("Y", i)[i], K_GOAL, JStr(<<>>))]),
          Text("garbage")}
    [] key = K_COMPLETENESS ->
         {Rec1(K_SCORE, v) : v \in ScoreInputs}
         \cup {Rec1(K_WARNINGS, JArr(<<Padded("w"), JStr(<<>>), JInt(1)>>)),
               Rec2(K_SCORE, JInt(90), K_WARNINGS, JArr(Items("w", 2))),
               Rec1(K_WARNINGS, JArr(<<Blank>>))}

\* Every object with exactly the sections 'keys', each holding one of its inputs.
RECURSIVE ObjectsOver(_)
ObjectsOver(keys) ==
  IF keys = {} THEN {[k \in {} |-> JNull]}
  ELSE LET key == CHOOSE k \in keys : TRUE
       IN  {(key :> v) @@ rest : v \in SectionInputs(key), rest \in ObjectsOver(keys \ {key})}

RECURSIVE KeySetsUpTo(_)
KeySetsUpTo(n) ==
  IF n = 0 THEN {{}}
  ELSE LET smaller == KeySetsUpTo(n - 1)
       IN  smaller \cup {ks \cup {k} : ks \in smaller, k \in SectionKeys}

CurrentKeyInputs ==
  {JObj(f) : f \in UNION {ObjectsOver(ks) : ks \in KeySetsUpTo(MaxKeys)}}

\* One section present under both its current key and its legacy key.
BothKeyInputs ==
  UNION {{Rec2(key, v, LegacyKey(key), LegacyForm(w)) :
            v \in SectionInputs(key), w \in SectionInputs(key)} : key \in SectionKeys}

\* Fields of normalizeResult's own (gemini.js:1087-1092).
ResultInputs ==
  {Rec2("model", Padded("gemini-x"), "layers",
        Rec1("L1_thinking", Rec2("interpretation", Padded("i"),
                                 "assumptions", JArr(<<Text("a1")>>)))),
   Rec2("model", Blank, "layers", Text("garbage")),
   Rec2("model", JInt(1), "L1_thinking",
        Rec1("alternatives", JArr(<<Rec1("name", Text("A")), JInt(1),
                                    Rec2("name", JStr(<<>>), "decision", JStr(<<>>))>>)))}

RawInputs == NonObjectInputs \cup CurrentKeyInputs \cup BothKeyInputs \cup ResultInputs

\* ------------------------------------------------------------------------
\* normalizeResult and what it assembles
\* ------------------------------------------------------------------------
\* gemini.js:736  normalizeThinkingAlternatives
normalizeThinkingAlternatives(value) ==
  IF ~IsArray(value) THEN <<>>
  ELSE LET mapped == [i \in 1..Len(value.a) |->
             LET safe == SafeItem(value.a[i])
             IN  [name |-> toSafeString(Get(safe, "name"), <<"ko:alternative">>),
                  pros |-> toStringArray(Get(safe, "pros")),
                  cons |-> toStringArray(Get(safe, "cons")),
                  decision |-> toSafeString(Get(safe, "decision"), <<"ko:on-hold">>),
                  reason |-> toSafeString(Get(safe, "reason"), <<>>)]]
       IN  SelectSeq(mapped, LAMBDA item :
             item.name # <<>> \/ Len(item.pros) # 0 \/ Len(item.cons) # 0
             \/ item.reason # <<>>)

DefaultAlternatives ==
  << [name |-> <<"A.", SP, "ko:template-based-quick-start">>,
      pros |-> << <<"ko:fast-structure">>, <<"ko:fewer-omissions">> >>,
      cons |-> << <<"ko:low-freedom">> >>,
      decision |-> <<"adopt">>,
      reason |-> <<"ko:structure-and-speed-first">>],
     [name |-> <<"B.", SP, "ko:free-input-high-flexibility">>,
      pros |-> << <<"ko:domain-freedom">> >>,
      cons |-> << <<"ko:more-ambiguity">>, <<"ko:more-release-risk">> >>,
      decision |-> <<"reject">>,
      reason |-> <<"ko:quality-variance-too-high">>] >>

\* gemini.js:756  buildCompatibilityThinking
buildCompatibilityThinking(spec, rawThinking) ==
  LET raw == IF isObject(rawThinking) THEN rawThinking ELSE EmptyObj
      normalizedAlternatives == normalizeThinkingAlternatives(Get(raw, "alternatives"))
      assumptions == toStringArray(Get(raw, "assumptions"))
      uncertainties == toStringArray(Get(raw, "uncertainties"))
  IN  [interpretation |-> toSafeString(Get(raw, "interpretation"), Field(spec, K_SUMMARY).s),
       assumptions |-> IF Len(assumptions) # 0 THEN assumptions
                       ELSE StrList(Sub(spec, K_FEATURES, K_MUST)),
       uncertainties |-> uncertainties
                         \o StrList(Sub(spec, K_AMBIGUITIES, K_MISSING))
                         \o StrList(Sub(spec, K_AMBIGUITIES, K_QUESTIONS))
                         \o StrList(Sub(spec, K_COMPLETENESS, K_WARNINGS)),
       alternatives |-> IF Len(normalizedAlternatives) # 0 THEN normalizedAlternatives
                        ELSE DefaultAlternatives]

\* gemini.js:809  the fixed core terms
CoreTerms ==
  << [term |-> <<"Parsing">>, aliases |-> << <<"ko:parsing">>, <<"parsing">> >>,
      flow_stage |-> "Parsing",
      request_template |-> <<"ko:state-the-parsing-rules-and-add-tests.">>],
     [term |-> <<"Schema">>, aliases |-> << <<"ko:schema">>, <<"schema">> >>,
      flow_stage |-> "Source of Truth",
      request_template |-> <<"ko:fix-the-schema-and-define-validation.">>],
     [term |-> <<"JSON">>, aliases |-> << <<"ko:json">>, <<"json">> >>,
      flow_stage |-> "Data Sync",
      request_template |-> <<"ko:fix-the-JSON-keys-and-add-a-fallback.">>],
     [term |-> <<"Validation">>, aliases |-> << <<"ko:validation">>, <<"validation">> >>,
      flow_stage |-> "Source of Truth",
      request_template |-> <<"ko:define-validation-rules-and-messages.">>] >>

GlossaryFieldLimit == 8

\* A faulty glossary: every input field gets a term, however many there are.
buildGlossaryOfAllFields(spec) ==
  LET fields == Field(spec, K_INPUT_FIELDS).a
      fieldTerms == [idx \in 1..Len(fields) |->
        LET field == fields[idx]
            name == IF field.o[K_NAME].s # <<>> THEN field.o[K_NAME].s
                    ELSE <<"ko:field">> \o NatToString(idx)
            type == IF field.o[K_TYPE].s # <<>> THEN field.o[K_TYPE].s ELSE <<"string">>
        IN  [term |-> name, aliases |-> <<name>>, flow_stage |-> "Parsing",
             request_template |->
               name \o <<SP, "ko:field-fixed-as", SP>> \o type
               \o <<SP, "ko:type;-add-validation-rules.">>]]
  IN  CoreTerms \o fieldTerms

\* gemini.js:808  buildCompatibilityGlossary
buildCompatibilityGlossary(spec) ==
  LET fields == Slice(Field(spec, K_INPUT_FIELDS).a, GlossaryFieldLimit)
      fieldTerms == [idx \in 1..Len(fields) |->
        LET field == fields[idx]
            name == IF field.o[K_NAME].s # <<>> THEN field.o[K_NAME].s
                    ELSE <<"ko:field">> \o NatToString(idx)
            type == IF field.o[K_TYPE].s # <<>> THEN field.o[K_TYPE].s ELSE <<"string">>
        IN  [term |-> name, aliases |-> <<name>>, flow_stage |-> "Parsing",
             request_template |->
               name \o <<SP, "ko:field-fixed-as", SP>> \o type
               \o <<SP, "ko:type;-add-validation-rules.">>]]
  IN  CoreTerms \o fieldTerms

\* gemini.js:1084  normalizeResult: the result handed to the UI, or Thrown.
\* (artifacts: the three markdown renderings of spec, pure and total on a
\* normalized document, are left out of the result record.)
normalizeResult(raw, fallbackModel) ==
  LET safe == IF isObject(raw) THEN raw ELSE EmptyObj
      spec == normalizeStandardOutput(safe)
      layers == Get(safe, "layers")
      nested == IF isObject(layers) THEN Get(layers, "L1_thinking") ELSE Undef
      rawThinking == IF isObject(nested) THEN nested
                     ELSE IF isObject(Get(safe, "L1_thinking")) THEN Get(safe, "L1_thinking")
                     ELSE JNull
      model == Get(safe, "model")
  IN  IF spec.t = "throw" THEN Thrown
      ELSE [t |-> "result",
            model |-> IF model.t = "str" /\ Trim(model.s) # <<>> THEN model.s
                      ELSE fallbackModel,
            standard_output |-> spec,
            L1_thinking |-> buildCompatibilityThinking(spec, rawThinking),
            glossary |-> buildCompatibilityGlossary(spec)]

\* ------------------------------------------------------------------------
\* Response text.  A text is a sequence of atoms: FENCE (three backticks),
\* white space, words of letters only ("json", "null", ...), digits, string
\* literals and punctuation.
\* ------------------------------------------------------------------------
FENCE == "<fence>"
LetterWords == {"json", "null", "true", "false"}

\* The string literals of the texts: the key or string each one denotes.
Literals ==
  ("\"ok\"" :> "ok") @@ ("\"summary\"" :> K_SUMMARY) @@ ("\"completeness\"" :> "completeness")
  @@ ("\"score\"" :> "score") @@ ("\"toString\"" :> "toString")

\* cleaned.replace(/^FENCE[a-zA-Z]*\s*/, '') on a text that starts with a fence
RECURSIVE DropLetters(_)
DropLetters(text) ==
  IF text # <<>> /\ Head(text) \in LetterWords THEN DropLetters(Tail(text)) ELSE text

\* withoutFenceStart.replace(/FENCE\s*$/, '')
DropFenceEnd(text) ==
  LET body == TrimEnd(text)
  IN  IF body # <<>> /\ body[Len(body)] = FENCE THEN SubSeq(body, 1, Len(body) - 1)
      ELSE text

\* gemini.js:905  extractJsonText
extractJsonText(text) ==
  LET cleaned == Trim(text)
  IN  IF text = <<>> THEN <<>>
      ELSE IF cleaned = <<>> \/ Head(cleaned) # FENCE THEN cleaned
      ELSE Trim(DropFenceEnd(TrimStart(DropLetters(Tail(cleaned)))))

\* JSON.parse on atoms: [ok, val, rest].  ok = FALSE is a SyntaxError.
ParseFail == [ok |-> FALSE, val |-> JNull, rest |-> <<>>]
Parsed(v, rest) == [ok |-> TRUE, val |-> v, rest |-> rest]

RECURSIVE DigitRun(_)
DigitRun(text) ==
  IF text # <<>> /\ Head(text) \in DigitAtoms THEN <<Head(text)>> \o DigitRun(Tail(text))
  ELSE <<>>

RECURSIVE ParseValue(_), ParseElements(_, _), ParseMembers(_, _)
ParseValue(text) ==
  LET t == TrimStart(text)
  IN  IF t = <<>> THEN ParseFail
      ELSE LET h == Head(t)
           IN  CASE h = "null" -> Parsed(JNull, Tail(t))
                 [] h = "true" -> Parsed(JBool(TRUE), Tail(t))
                 [] h = "false" -> Parsed(JBool(FALSE), Tail(t))
                 [] h \in DigitAtoms ->
                      LET run == DigitRun(t)
                      IN  \* a leading zero is followed by no digit
                          IF Len(run) > 1 /\ run[1] = "0" THEN ParseFail
                          ELSE Parsed(JInt(DigitsToNat(run)), SubSeq(t, Len(run) + 1, Len(t)))
                 [] h \in DOMAIN Literals -> Parsed(JStr(<<Literals[h]>>), Tail(t))
                 [] h = "[" ->
                      LET inner == TrimStart(Tail(t))
                      IN  IF inner # <<>> /\ Head(inner) = "]"
                          THEN Parsed(JArr(<<>>), Tail(inner))
                          ELSE ParseElements(Tail(t), <<>>)
                 [] h = "{" ->
                      LET inner == TrimStart(Tail(t))
                      IN  IF inner # <<>> /\ Head(inner) = "}"
                          THEN Parsed(EmptyObj, Tail(inner))
                          ELSE ParseMembers(Tail(t), [k \in {} |-> JNull])
                 [] OTHER -> ParseFail

\* value ("," value)* "]"
ParseElements(text, acc) ==
  LET v == ParseValue(text)
      after == TrimStart(v.rest)
  IN  IF ~v.ok \/ after = <<>> THEN ParseFail
      ELSE IF Head(after) = "]" THEN Parsed(JArr(Append(acc, v.val)), Tail(after))
      ELSE IF Head(after) = "," THEN ParseElements(Tail(after), Append(acc, v.val))
      ELSE ParseFail

\* string ":" value ("," string ":" value)* "}"; a repeated key keeps its last value
ParseMembers(text, acc) ==
  LET t == TrimStart(text)
      colon == IF t = <<>> THEN <<>> ELSE TrimStart(Tail(t))
  IN  IF t = <<>> \/ Head(t) \notin DOMAIN Literals \/ colon = <<>> \/ Head(colon) # ":"
      THEN ParseFail
      ELSE LET v == ParseValue(Tail(colon))
               after == TrimStart(v.rest)
               acc2 == (Literals[Head(t)] :> v.val) @@ acc
           IN  IF ~v.ok \/ after = <<>> THEN ParseFail
               ELSE IF Head(after) = "}" THEN Parsed(JObj(acc2), Tail(after))
               ELSE IF Head(after) = "," THEN ParseMembers(Tail(after), acc2)
               ELSE ParseFail

\* JSON.parse(text): the value, or Thrown on a SyntaxError
JsonParse(text) ==
  LET v == ParseValue(text)
  IN  IF v.ok /\ TrimStart(v.rest) = <<>> THEN v.val ELSE Thrown

\* ------------------------------------------------------------------------
\* The generation pipeline: transmuteVibeToSpec and what it awaits
\* ------------------------------------------------------------------------
MaxInvocations == 2
Invocations == 1..MaxInvocations

\* gemini.js:9, 11
DEFAULT_MODELS == <<"gemini-1.5-flash", "gemini-1.5-pro", "gemini-pro">>
PREFERENCE_ORDER == <<"gemini-1.5-flash", "gemini-1.5-pro", "gemini-1.0-pro", "gemini-pro">>

\* What the models endpoint may answer with: data.models after the filter
\* and map of gemini.js:1161-1163.
ModelLists == {<<>>, <<"gemini-pro", "gemini-1.5-pro">>}

\* What generateContent may answer with: JSON payloads, bare or inside a
\* markdown fence.
SummaryPayload == <<"{", "\"summary\"", ":", "\"ok\"", "}">>
TruncatedPayload == <<"{", "\"summary\"", ":">>
ScoreObjectPayload ==
  <<"{", "\"completeness\"", ":", "{", "\"score\"", ":", "{", "\"toString\"", ":", "1",
    "}", "}", "}">>
Fenced(body) == <<SP, FENCE, "json", NL>> \o body \o <<NL, FENCE, NL>>
FencedBare(body) == <<FENCE>> \o body \o <<FENCE>>
Texts ==
  { <<>>,
    SummaryPayload, Fenced(SummaryPayload), FencedBare(SummaryPayload),
    Fenced(<<"null">>), FencedBare(<<"null">>),
    Fenced(TruncatedPayload),
    Fenced(ScoreObjectPayload) }

\* The caller's arguments: the vibe, and the showThinking option at its
\* default (gemini.js:1193).
Vibe == <<"vibe">>
ShowThinking == TRUE

VARIABLES
  pc,               \* where each invocation of transmuteVibeToSpec stands
  calls,            \* generateContent calls made by each invocation
  prompt,           \* the prompt of the call in flight
  firstText,        \* parseJsonWithOneRetry's firstText
  replies,          \* what each call of the invocation came back with
  modelName,        \* the model getOptimalModel chose
  result,           \* the value returned to the caller
  error,            \* the error thrown to the caller
  availableModels,  \* gemini.js:166, the process-wide cache
  fetches,          \* model-list fetches made by the pipeline
  nPhase,           \* normalizer harness: which function was applied last
  nRaw,             \* normalizer harness: the raw input
  nOut,             \* normalizeStandardOutput(nRaw)
  nOut2             \* the second application (see NextNorm)

pipelineVars ==
  <<pc, calls, prompt, firstText, replies, modelName, result, error, availableModels, fetches>>
normVars == <<nPhase, nRaw, nOut, nOut2>>

\* App.jsx:975-995  the state of the App component (uiResult is its 'result')
\* and the item stored under API_KEY_STORAGE_KEY in each browser storage.
VARIABLES
  vibe, status, uiResult, apiKey, isSettingsOpen, rememberThisDevice, tempKey,
  sessionStorage, localStorage,
  modelFetch        \* App.jsx:1174  the effect's fetchAvailableModels call is pending

\* App.jsx:981-989  the tab and glossary state of the App component, and the
\* window.setTimeout callbacks of handleGlossaryCardClick that are pending.
VARIABLES
  activeTab, lastContentTab, selectedTermId, focusedTermId, termLocateMessage,
  pendingContentScrollTermId,
  focusTimers,      \* pending () => setFocusedTermId(null)
  messageTimers     \* pending () => setTermLocateMessage('')

glossaryVars ==
  <<activeTab, lastContentTab, selectedTermId, focusedTermId, termLocateMessage,
    pendingContentScrollTermId, focusTimers, messageTimers>>

uiVars ==
  <<vibe, status, uiResult, apiKey, isSettingsOpen, rememberThisDevice, tempKey,
    sessionStorage, localStorage, modelFetch, glossaryVars>>

vars == <<pipelineVars, normVars, uiVars>>

\* A term id that is null.
NoTerm == "null"

\* App.jsx:981-989  the initial tab and glossary state
GlossaryIdle ==
  /\ activeTab = "nondev"
  /\ lastContentTab = "nondev"
  /\ selectedTermId = NoTerm
  /\ focusedTermId = NoTerm
  /\ termLocateMessage = ""
  /\ pendingContentScrollTermId = NoTerm
  /\ focusTimers = 0
  /\ messageTimers = 0

\* The page is not open.
UiIdle ==
  /\ vibe = <<>>
  /\ status = "closed"
  /\ uiResult = JNull
  /\ apiKey = <<>>
  /\ isSettingsOpen = FALSE
  /\ rememberThisDevice = FALSE
  /\ tempKey = <<>>
  /\ sessionStorage = JNull
  /\ localStorage = JNull
  /\ modelFetch = FALSE
  /\ GlossaryIdle

NoPrompt == [kind |-> "none"]
NoText == [has |-> FALSE, text |-> <<>>]
NoResult == [t |-> "none"]
NoError == ""
MissingKeyError == "API key is missing."
TransmutationError == "Transmutation interrupted by model or JSON parsing failure."

\* gemini.js:1112  buildPrompt.  retryPayload is null or a text; an empty
\* text is falsy.
buildPrompt(userVibe, thinking, retryPayload) ==
  IF retryPayload.has /\ retryPayload.text # <<>>
  THEN [kind |-> "repair", schema |-> "JSON_SCHEMA_HINT", previous |-> retryPayload.text]
  ELSE [kind |-> "generation", system |-> "BASE_SYSTEM_PROMPT", schema |-> "JSON_SCHEMA_HINT",
        vibe |-> userVibe, showThinking |-> thinking]

\* gemini.js:1182-1186  the model chosen from the cache
ChooseModel(models) ==
  LET preferred == {i \in 1..Len(PREFERENCE_ORDER) :
                      \E j \in 1..Len(models) : models[j] = PREFERENCE_ORDER[i]}
  IN  IF preferred # {}
      THEN PREFERENCE_ORDER[CHOOSE i \in preferred : \A j \in preferred : i <= j]
      ELSE IF models # <<>> THEN models[1] ELSE DEFAULT_MODELS[1]

PipelineInit ==
  /\ pc = [i \in Invocations |-> "idle"]
  /\ calls = [i \in Invocations |-> 0]
  /\ prompt = [i \in Invocations |-> NoPrompt]
  /\ firstText = [i \in Invocations |-> NoText]
  /\ replies = [i \in Invocations |-> <<>>]
  /\ modelName = [i \in Invocations |-> ""]
  /\ result = [i \in Invocations |-> NoResult]
  /\ error = [i \in Invocations |-> NoError]
  /\ availableModels = <<>>
  /\ fetches = 0

\* gemini.js:1123  generateJson up to its await: the prompt is built and
\* generateContent is called.
CallGenerate(i, thinking, retryPayload) ==
  /\ prompt' = [prompt EXCEPT ![i] = buildPrompt(Vibe, thinking, retryPayload)]
  /\ calls' = [calls EXCEPT ![i] = @ + 1]

\* The invocation ends by throwing message to its caller.
Fail(i, message) ==
  /\ pc' = [pc EXCEPT ![i] = "failed"]
  /\ error' = [error EXCEPT ![i] = message]
  /\ prompt' = [prompt EXCEPT ![i] = NoPrompt]
  /\ UNCHANGED <<calls, result>>

\* gemini.js:1203-1208  the parsed value is normalized and returned; a throw
\* of normalizeResult is caught by the same catch as a failed parse.
Finish(i, parsed) ==
  \E normalized \in {normalizeResult(parsed, <<modelName[i]>>)} :
      IF normalized.t = "throw" THEN Fail(i, TransmutationError)
      ELSE /\ pc' = [pc EXCEPT ![i] = "done"]
           /\ result' = [result EXCEPT ![i] = normalized]
           /\ prompt' = [prompt EXCEPT ![i] = NoPrompt]
           /\ UNCHANGED <<calls, error>>

\* gemini.js:1193  transmuteVibeToSpec is called.  Without a key it throws
\* at once; with an empty cache getOptimalModel awaits the model list;
\* otherwise the first generateContent call is made.
transmuteVibeToSpec(i, key) ==
  /\ pc[i] = "idle"
  /\ IF key = ""
     THEN /\ Fail(i, MissingKeyError)
          /\ UNCHANGED <<firstText, replies, modelName, availableModels, fetches>>
     ELSE IF Len(availableModels) = 0
     THEN /\ pc' = [pc EXCEPT ![i] = "fetching"]
          /\ fetches' = fetches + 1
          /\ UNCHANGED <<calls, prompt, firstText, replies, modelName, result, error,
                         availableModels>>
     ELSE /\ pc' = [pc EXCEPT ![i] = "gen1"]
          /\ modelName' = [modelName EXCEPT ![i] = ChooseModel(availableModels)]
          /\ CallGenerate(i, ShowThinking, NoText)
          /\ UNCHANGED <<firstText, replies, result, error, availableModels, fetches>>

\* A caller outside the page calls transmuteVibeToSpec, with or without a key.
Start(i) ==
  /\ \E key \in {"", "key"} : transmuteVibeToSpec(i, key)
  /\ UNCHANGED <<normVars, uiVars>>

\* gemini.js:1149, 1177  the model-list fetch of getOptimalModel settles:
\* with a list (kept as the cache, even when empty), or without one (no
\* data.models, or a throw: DEFAULT_MODELS becomes the cache).
FetchSettles(i) ==
  /\ pc[i] = "fetching"
  /\ \E fetched \in ModelLists \cup {DEFAULT_MODELS} :
       /\ availableModels' = fetched
       /\ modelName' = [modelName EXCEPT ![i] = ChooseModel(fetched)]
  /\ pc' = [pc EXCEPT ![i] = "gen1"]
  /\ CallGenerate(i, ShowThinking, NoText)
  /\ UNCHANGED <<firstText, replies, result, error, fetches>>
  /\ UNCHANGED <<normVars, uiVars>>

ReplyKind(text) ==
  IF JsonParse(extractJsonText(text)).t = "throw" THEN "unparsable" ELSE "parsed"

\* gemini.js:1135-1140  the first call returns text: it is parsed, and on a
\* SyntaxError the repair call is made with firstText as retryPayload.
FirstReturns(i) ==
  /\ pc[i] = "gen1"
  /\ \E text \in Texts :
       \E parsed \in {JsonParse(extractJsonText(text))} :
           /\ replies' = [replies EXCEPT ![i] = Append(@, ReplyKind(text))]
           /\ IF parsed.t = "throw"
              THEN /\ firstText' = [firstText EXCEPT ![i] = [has |-> TRUE, text |-> text]]
                   /\ pc' = [pc EXCEPT ![i] = "gen2"]
                   /\ CallGenerate(i, ShowThinking, [has |-> TRUE, text |-> text])
                   /\ UNCHANGED <<result, error>>
              ELSE /\ Finish(i, parsed)
                   /\ UNCHANGED firstText
  /\ UNCHANGED <<modelName, availableModels, fetches>>
  /\ UNCHANGED <<normVars, uiVars>>

\* A faulty repair step: an unparsable repair answer is sent back for another
\* repair instead of ending the invocation.
RepairRepeats(i) ==
  /\ pc[i] = "gen2"
  /\ \E text \in Texts :
       \E parsed \in {JsonParse(extractJsonText(text))} :
           /\ replies' = [replies EXCEPT ![i] = Append(@, ReplyKind(text))]
           /\ IF parsed.t = "throw"
              THEN /\ firstText' = [firstText EXCEPT ![i] = [has |-> TRUE, text |-> text]]
                   /\ CallGenerate(i, ShowThinking, [has |-> TRUE, text |-> text])
                   /\ UNCHANGED <<pc, result, error>>
              ELSE /\ Finish(i, parsed)
                   /\ firstText' = [firstText EXCEPT ![i] = NoText]
  /\ UNCHANGED <<modelName, availableModels, fetches>>
  /\ UNCHANGED <<normVars, uiVars>>

\* A faulty repair step: an unparsable repair answer is swallowed and an
\* all-default result is returned.
RepairFallsBack(i) ==
  /\ pc[i] = "gen2"
  /\ \E text \in Texts :
       \E parsed \in {JsonParse(extractJsonText(text))} :
           /\ replies' = [replies EXCEPT ![i] = Append(@, ReplyKind(text))]
           /\ IF parsed.t = "throw" THEN Finish(i, EmptyObj) ELSE Finish(i, parsed)
  /\ firstText' = [firstText EXCEPT ![i] = NoText]
  /\ UNCHANGED <<modelName, availableModels, fetches>>
  /\ UNCHANGED <<normVars, uiVars>>

\* gemini.js:1140-1141  the repair call returns text: it is parsed, and a
\* SyntaxError is not caught by parseJsonWithOneRetry.
RepairReturns(i) ==
  /\ pc[i] = "gen2"
  /\ \E text \in Texts :
       \E parsed \in {JsonParse(extractJsonText(text))} :
           /\ replies' = [replies EXCEPT ![i] = Append(@, ReplyKind(text))]
           /\ IF parsed.t = "throw" THEN Fail(i, TransmutationError) ELSE Finish(i, parsed)
  /\ firstText' = [firstText EXCEPT ![i] = NoText]
  /\ UNCHANGED <<modelName, availableModels, fetches>>
  /\ UNCHANGED <<normVars, uiVars>>

\* A faulty failure path: a throwing first call is answered with the repair
\* call, as an unparsable answer would be.
GenerateThrowsRetried(i) ==
  /\ pc[i] \in {"gen1", "gen2"}
  /\ replies' = [replies EXCEPT ![i] = Append(@, "threw")]
  /\ IF pc[i] = "gen1"
     THEN /\ pc' = [pc EXCEPT ![i] = "gen2"]
          /\ CallGenerate(i, ShowThinking, NoText)
          /\ UNCHANGED <<result, error>>
     ELSE Fail(i, TransmutationError)
  /\ firstText' = [firstText EXCEPT ![i] = NoText]
  /\ UNCHANGED <<modelName, availableModels, fetches>>
  /\ UNCHANGED <<normVars, uiVars>>

\* A faulty failure path: the client's own error reaches the caller.
GenerateThrowsUncaught(i) ==
  /\ pc[i] \in {"gen1", "gen2"}
  /\ replies' = [replies EXCEPT ![i] = Append(@, "threw")]
  /\ Fail(i, "generateContent failed")
  /\ firstText' = [firstText EXCEPT ![i] = NoText]
  /\ UNCHANGED <<modelName, availableModels, fetches>>
  /\ UNCHANGED <<normVars, uiVars>>

\* gemini.js:1125-1127  generateContent rejects, or response.text() throws:
\* neither call is inside a try of parseJsonWithOneRetry's own that retries.
GenerateThrows(i) ==
  /\ pc[i] \in {"gen1", "gen2"}
  /\ replies' = [replies EXCEPT ![i] = Append(@, "threw")]
  /\ Fail(i, TransmutationError)
  /\ firstText' = [firstText EXCEPT ![i] = NoText]
  /\ UNCHANGED <<modelName, availableModels, fetches>>
  /\ UNCHANGED <<normVars, uiVars>>

NormIdle ==
  /\ nPhase = "off"
  /\ nRaw = JNull
  /\ nOut = NoResult
  /\ nOut2 = NoResult

Init == PipelineInit /\ NormIdle /\ UiIdle

Next ==
  \E i \in Invocations :
    \/ Start(i)
    \/ FetchSettles(i)
    \/ FirstReturns(i)
    \/ RepairReturns(i)
    \/ GenerateThrows(i)

Spec == Init /\ [][Next]_vars

\* ------------------------------------------------------------------------
\* The normalizer on its own: normalizeStandardOutput and normalizeResult
\* applied to every raw input
\* ------------------------------------------------------------------------
LegacyKeys == {AliasTable[k] : k \in DOMAIN AliasTable}

RECURSIVE UsesNoLegacyKey(_)
UsesNoLegacyKey(value) ==
  CASE value.t = "obj" ->
         /\ DOMAIN value.o \cap LegacyKeys = {}
         /\ \A k \in DOMAIN value.o : UsesNoLegacyKey(value.o[k])
    [] value.t = "arr" -> \A i \in 1..Len(value.a) : UsesNoLegacyKey(value.a[i])
    [] OTHER -> TRUE

FallbackModel == <<"gemini-1.5-flash">>

InitNorm ==
  /\ PipelineInit
  /\ UiIdle
  /\ nPhase = "input"
  /\ nRaw \in RawInputs
  /\ nOut = NoResult
  /\ nOut2 = NoResult

\* normalizeStandardOutput(raw)
Normalize ==
  /\ nPhase = "input"
  /\ nOut' = normalizeStandardOutput(nRaw)
  /\ nPhase' = "normalized"
  /\ UNCHANGED <<nRaw, nOut2, pipelineVars, uiVars>>

\* The normalized document is normalized again.
Renormalize ==
  /\ nPhase = "normalized"
  /\ nOut.t # "throw"
  /\ nOut2' = normalizeStandardOutput(nOut)
  /\ nPhase' = "renormalized"
  /\ UNCHANGED <<nRaw, nOut, pipelineVars, uiVars>>

\* The same payload in its legacy spelling is normalized.
NormalizeLegacy ==
  /\ nPhase = "normalized"
  /\ UsesNoLegacyKey(nRaw)
  /\ nOut2' = normalizeStandardOutput(LegacyForm(nRaw))
  /\ nPhase' = "legacy"
  /\ UNCHANGED <<nRaw, nOut, pipelineVars, uiVars>>

\* normalizeResult(raw, fallbackModel)
BuildResult ==
  /\ nPhase = "normalized"
  /\ nOut2' = normalizeResult(nRaw, FallbackModel)
  /\ nPhase' = "result"
  /\ UNCHANGED <<nRaw, nOut, pipelineVars, uiVars>>

NextNorm ==
  \/ Normalize
  \/ Renormalize
  \/ NormalizeLegacy
  \/ BuildResult

SpecNorm == InitNorm /\ [][NextNorm]_vars


\* ------------------------------------------------------------------------
\* ------------------------------------------------------------------------
\* The App component (App.jsx): the API key settings and the transmute cycle
\* ------------------------------------------------------------------------
\* What the user types into the key field and into the vibe field.
TempKeys == {<<>>, <<SP>>, <<"k1">>, <<SP, "k2", SP>>}
Vibes == {<<>>, <<SP>>, Vibe}

\* The texts the model answers with while the page is used.
UiTexts == {<<>>, SummaryPayload, Fenced(<<"null">>), Fenced(ScoreObjectPayload)}

\* A storage item as a condition: getItem gives null or a string, and ''
\* is falsy.
HasItem(item) == item.t = "str" /\ item.s # <<>>

\* App.jsx:871  getStoredApiKey
getStoredApiKey(session, local) ==
  IF HasItem(session) THEN session.s
  ELSE IF HasItem(local) THEN local.s
  ELSE <<>>

\* gemini.js:1134  parseJsonWithOneRetry, as a function of the two answers:
\* the parsed value, or the SyntaxError of the repair answer.
parseJsonWithOneRetry(firstReply, repairedReply) ==
  LET first == JsonParse(extractJsonText(firstReply))
  IN  IF first.t # "throw" THEN first ELSE JsonParse(extractJsonText(repairedReply))

\* gemini.js:1202-1208  what the awaited transmuteVibeToSpec settles with: a
\* normalized result, or the error it throws (also when a call rejects).
TransmuteOutcomes ==
  {Thrown} \cup
  { LET parsed == parseJsonWithOneRetry(firstReply, repairedReply)
    IN  IF parsed.t = "throw" THEN Thrown ELSE normalizeResult(parsed, FallbackModel)
    : firstReply \in UiTexts, repairedReply \in UiTexts }

\* App.jsx:975-995  the component mounts over the given storage contents;
\* App.jsx:1174-1192  the effect copies a key found in localStorage only
\* into sessionStorage.
Mounted(session, local) ==
  \E stored \in {getStoredApiKey(session, local)} :
    /\ vibe' = <<>>
    /\ status' = "idle"
    /\ uiResult' = JNull
    /\ apiKey' = stored
    /\ isSettingsOpen' = (stored = <<>>)
    /\ rememberThisDevice' = HasItem(local)
    /\ tempKey' = <<>>
    /\ sessionStorage' = IF stored # <<>> /\ ~HasItem(session) THEN JStr(stored) ELSE session
    /\ localStorage' = local
    /\ modelFetch' = (stored # <<>>)
    /\ activeTab' = "nondev"
    /\ lastContentTab' = "nondev"
    /\ selectedTermId' = NoTerm
    /\ focusedTermId' = NoTerm
    /\ termLocateMessage' = ""
    /\ pendingContentScrollTermId' = NoTerm
    /\ focusTimers' = 0
    /\ messageTimers' = 0

\* The page is opened in a browser that has never stored a key.
InitUI ==
  /\ PipelineInit
  /\ NormIdle
  /\ vibe = <<>>
  /\ status = "idle"
  /\ uiResult = JNull
  /\ apiKey = <<>>
  /\ isSettingsOpen = TRUE
  /\ rememberThisDevice = FALSE
  /\ tempKey = <<>>
  /\ sessionStorage = JNull
  /\ localStorage = JNull
  /\ modelFetch = FALSE
  /\ GlossaryIdle

\* The page is reloaded (sessionStorage survives) or opened in a new tab
\* (sessionStorage starts empty); a pending transmute call is abandoned and
\* the module of gemini.js is loaded anew, with an empty model cache.
Reopen ==
  /\ \E keepSession \in BOOLEAN :
       Mounted(IF keepSession THEN sessionStorage ELSE JNull, localStorage)
  /\ availableModels' = <<>>
  /\ UNCHANGED <<pc, calls, prompt, firstText, replies, modelName, result, error, fetches>>
  /\ UNCHANGED normVars

\* App.jsx:1491  the settings button
OpenSettings ==
  /\ ~isSettingsOpen
  /\ isSettingsOpen' = TRUE
  /\ UNCHANGED <<vibe, status, uiResult, apiKey, rememberThisDevice, tempKey,
                 sessionStorage, localStorage>>
  /\ UNCHANGED <<pipelineVars, normVars, modelFetch, glossaryVars>>

\* App.jsx:1873, 1881  the modal is closed; possible only with a key
CloseSettings ==
  /\ isSettingsOpen
  /\ apiKey # <<>>
  /\ isSettingsOpen' = FALSE
  /\ UNCHANGED <<vibe, status, uiResult, apiKey, rememberThisDevice, tempKey,
                 sessionStorage, localStorage>>
  /\ UNCHANGED <<pipelineVars, normVars, modelFetch, glossaryVars>>

\* App.jsx:1887  the key field
TypeTempKey ==
  /\ isSettingsOpen
  /\ \E text \in TempKeys : tempKey' = text
  /\ UNCHANGED <<vibe, status, uiResult, apiKey, isSettingsOpen, rememberThisDevice,
                 sessionStorage, localStorage>>
  /\ UNCHANGED <<pipelineVars, normVars, modelFetch, glossaryVars>>

\* A faulty save: the key goes to localStorage whatever the checkbox says.
handleSaveKeyEverywhere ==
  /\ isSettingsOpen
  /\ Trim(tempKey) # <<>>
  /\ sessionStorage' = JStr(Trim(tempKey))
  /\ localStorage' = JStr(Trim(tempKey))
  /\ apiKey' = Trim(tempKey)
  /\ isSettingsOpen' = FALSE
  /\ tempKey' = <<>>
  /\ UNCHANGED <<vibe, status, uiResult, rememberThisDevice>>
  /\ modelFetch' = (modelFetch \/ Trim(tempKey) # apiKey)
  /\ UNCHANGED <<pipelineVars, normVars, glossaryVars>>

\* App.jsx:1233  handleSaveKey (the button is disabled, and the handler
\* returns, when the trimmed field is empty).  A changed apiKey runs the
\* effect of App.jsx:1174, which calls fetchAvailableModels.
handleSaveKey ==
  /\ isSettingsOpen
  /\ Trim(tempKey) # <<>>
  /\ sessionStorage' = JStr(Trim(tempKey))
  /\ localStorage' = IF rememberThisDevice THEN JStr(Trim(tempKey)) ELSE JNull
  /\ apiKey' = Trim(tempKey)
  /\ isSettingsOpen' = FALSE
  /\ tempKey' = <<>>
  /\ UNCHANGED <<vibe, status, uiResult, rememberThisDevice>>
  /\ modelFetch' = (modelFetch \/ Trim(tempKey) # apiKey)
  /\ UNCHANGED <<pipelineVars, normVars, glossaryVars>>

\* App.jsx:1892-1905  the 'remember on this device' checkbox is toggled
RememberChanged ==
  /\ isSettingsOpen
  /\ \E next \in {~rememberThisDevice} :
       /\ rememberThisDevice' = next
       /\ localStorage' = IF ~next THEN JNull
                          ELSE IF apiKey # <<>> THEN JStr(apiKey)
                          ELSE localStorage
  /\ UNCHANGED <<vibe, status, uiResult, apiKey, isSettingsOpen, tempKey, sessionStorage>>
  /\ UNCHANGED <<pipelineVars, normVars, modelFetch, glossaryVars>>

\* App.jsx:1516-1519  the vibe field, disabled while processing or without a key
TypeVibe ==
  /\ status # "processing"
  /\ apiKey # <<>>
  /\ \E text \in Vibes : vibe' = text
  /\ UNCHANGED <<status, uiResult, apiKey, isSettingsOpen, rememberThisDevice, tempKey,
                 sessionStorage, localStorage>>
  /\ UNCHANGED <<pipelineVars, normVars, modelFetch, glossaryVars>>

\* A faulty start: the previous result stays while the new call is pending.
handleTransmuteKeepsResult ==
  /\ status # "processing"
  /\ Trim(vibe) # <<>>
  /\ apiKey # <<>>
  /\ status' = "processing"
  /\ UNCHANGED <<vibe, uiResult, apiKey, isSettingsOpen, rememberThisDevice, tempKey,
                 sessionStorage, localStorage>>
  /\ UNCHANGED <<pipelineVars, normVars, modelFetch, glossaryVars>>

\* A faulty start: the button stays enabled while a call is pending.
TransmuteClickedWhileProcessing ==
  /\ Trim(vibe) # <<>>
  /\ apiKey # <<>>
  /\ status' = "processing"
  /\ uiResult' = JNull
  /\ UNCHANGED <<vibe, apiKey, isSettingsOpen, rememberThisDevice, tempKey,
                 sessionStorage, localStorage, modelFetch, glossaryVars>>

\* App.jsx:1253-1264  handleTransmute up to its await.  The button is
\* disabled while processing, with a blank vibe and without a key
\* (App.jsx:1560), so the handler runs past its two early returns.
TransmuteClicked ==
  /\ status # "processing"
  /\ Trim(vibe) # <<>>
  /\ apiKey # <<>>
  /\ status' = "processing"
  /\ uiResult' = JNull
  /\ UNCHANGED <<vibe, apiKey, isSettingsOpen, rememberThisDevice, tempKey,
                 sessionStorage, localStorage, modelFetch, glossaryVars>>

\* The same with the pipeline left out: its outcome is drawn in TransmuteSettles.
handleTransmute ==
  /\ TransmuteClicked
  /\ UNCHANGED <<pipelineVars, normVars>>

\* A faulty continuation: handleTransmute without its catch, so a rejected
\* call leaves the status as it is.
SettledWithoutCatch(generated) ==
  /\ status = "processing"
  /\ generated.t # "throw"
  /\ uiResult' = generated
  /\ activeTab' = "nondev"
  /\ lastContentTab' = "nondev"
  /\ selectedTermId' = NoTerm
  /\ status' = "success"
  /\ UNCHANGED <<vibe, apiKey, isSettingsOpen, rememberThisDevice, tempKey,
                 sessionStorage, localStorage, modelFetch, focusedTermId,
                 termLocateMessage, pendingContentScrollTermId, focusTimers,
                 messageTimers>>

\* App.jsx:1264-1273  the awaited call settles: the result is stored and the
\* status becomes 'success', or the catch sets 'error'.
SettledWith(generated) ==
  /\ status = "processing"
  /\ IF generated.t = "throw"
     THEN /\ status' = "error"
          /\ UNCHANGED <<uiResult, activeTab, lastContentTab, selectedTermId>>
     ELSE /\ uiResult' = generated
          /\ activeTab' = "nondev"
          /\ lastContentTab' = "nondev"
          /\ selectedTermId' = NoTerm
          /\ status' = "success"
  /\ UNCHANGED <<vibe, apiKey, isSettingsOpen, rememberThisDevice, tempKey,
                 sessionStorage, localStorage, modelFetch, focusedTermId,
                 termLocateMessage, pendingContentScrollTermId, focusTimers,
                 messageTimers>>

\* The same with the pipeline left out: the call settles with any outcome.
TransmuteSettles ==
  /\ \E generated \in TransmuteOutcomes : SettledWith(generated)
  /\ UNCHANGED <<pipelineVars, normVars>>

\* App.jsx:1174-1183, gemini.js:1149-1172  the fetchAvailableModels call of
\* the apiKey effect settles: a response with data.models replaces the
\* cache by the filtered list (gemini.js:1161), any other outcome leaves it.
ModelsFetched ==
  /\ modelFetch
  /\ modelFetch' = FALSE
  /\ \E answered \in BOOLEAN :
       IF answered
       THEN \E fetched \in ModelLists : availableModels' = fetched
       ELSE UNCHANGED availableModels
  /\ UNCHANGED <<pc, calls, prompt, firstText, replies, modelName, result, error, fetches>>
  /\ UNCHANGED <<vibe, status, uiResult, apiKey, isSettingsOpen, rememberThisDevice,
                 tempKey, sessionStorage, localStorage, glossaryVars>>
  /\ UNCHANGED normVars

NextUI ==
  \/ Reopen
  \/ OpenSettings
  \/ CloseSettings
  \/ TypeTempKey
  \/ handleSaveKey
  \/ RememberChanged
  \/ TypeVibe
  \/ handleTransmute
  \/ TransmuteSettles
  \/ ModelsFetched

SpecUI == InitUI /\ [][NextUI]_vars

\* ---------------------------------------------------------------------
\* One page load: the App component drives the pipeline of gemini.js.  The
\* page is opened without a stored key; the settings dialog is used once,
\* to save the first key.

\* The invocation the page is waiting for: the last one it started.
Awaited(i) == pc[i] # "idle" /\ \A j \in Invocations : j > i => pc[j] = "idle"

\* App.jsx:1253-1264  the click on the transmute button: handleTransmute
\* runs up to its await and transmuteVibeToSpec starts with the page's key.
PageTransmute ==
  /\ TransmuteClicked
  /\ \E i \in Invocations :
       /\ \A j \in Invocations : j < i => pc[j] # "idle"
       /\ transmuteVibeToSpec(i, "key")
  /\ UNCHANGED normVars

\* App.jsx:1264-1273  the awaited invocation has returned or thrown and
\* handleTransmute resumes.
PageSettles ==
  /\ \E i \in Invocations :
       /\ Awaited(i)
       /\ pc[i] \in {"done", "failed"}
       /\ SettledWith(IF pc[i] = "done" THEN result[i] ELSE Thrown)
  /\ UNCHANGED <<pipelineVars, normVars>>

\* A call of invocation i to an external service returns or throws.
CallSettles(i) ==
  \/ FetchSettles(i)
  \/ FirstReturns(i)
  \/ RepairReturns(i)
  \/ GenerateThrows(i)

NextPage ==
  \/ TypeTempKey
  \/ handleSaveKey
  \/ TypeVibe
  \/ PageTransmute
  \/ PageSettles
  \/ ModelsFetched
  \/ \E i \in Invocations : FetchSettles(i)
  \/ \E i \in Invocations : FirstReturns(i)
  \/ \E i \in Invocations : RepairReturns(i)
  \/ \E i \in Invocations : GenerateThrows(i)

\* Every call to an external service eventually returns or throws, and a
\* settled promise resumes its awaiting handler.
FairPage ==
  /\ \A i \in Invocations : WF_vars(CallSettles(i))
  /\ WF_vars(PageSettles)
  /\ WF_vars(ModelsFetched)

SpecPage == InitUI /\ [][NextPage]_vars /\ FairPage

\* ---------------------------------------------------------------------
\* The result panel of a page that shows a result: tabs and glossary cards.

\* App.jsx:858  TABS, and the tabs that show content
TabIds == {"nondev", "dev", "thinking", "layers", "glossary"}
ContentTabs == {"nondev", "dev", "thinking"}

\* The ids of the glossary cards, and the cards whose term each content tab
\* mentions (App.jsx:1313-1317 hasMatch): the first term is in two tabs, the
\* second in none.
TermIds == {"term-0", "term-1"}
TabMentions == [tab \in ContentTabs |-> IF tab = "thinking" THEN {} ELSE {"term-0"}]

\* Pending timeouts of one kind that are tracked.
MaxTimers == 2

\* A page after a successful transmute, with a key saved for the session.
InitGlossary ==
  /\ PipelineInit
  /\ NormIdle
  /\ vibe = Vibe
  /\ status = "success"
  /\ uiResult \in {generated \in TransmuteOutcomes : generated.t # "throw"}
  /\ apiKey = <<"k1">>
  /\ isSettingsOpen = FALSE
  /\ rememberThisDevice = FALSE
  /\ tempKey = <<>>
  /\ sessionStorage = JStr(<<"k1">>)
  /\ localStorage = JNull
  /\ modelFetch = FALSE
  /\ GlossaryIdle

PageUnchanged ==
  UNCHANGED <<pipelineVars, normVars, vibe, status, uiResult, apiKey, isSettingsOpen,
              rememberThisDevice, tempKey, sessionStorage, localStorage, modelFetch>>

\* App.jsx:1193-1197  the effect that remembers the last content tab
RememberedTab(tab) == IF tab \in ContentTabs THEN tab ELSE lastContentTab

\* App.jsx:1599  a tab button is clicked
SelectTab ==
  /\ \E tab \in TabIds :
       /\ activeTab' = tab
       /\ lastContentTab' = RememberedTab(tab)
  /\ UNCHANGED <<selectedTermId, focusedTermId, termLocateMessage,
                 pendingContentScrollTermId, focusTimers, messageTimers>>
  /\ PageUnchanged

\* App.jsx:1311-1334  handleGlossaryCardClick, called from a card of the
\* glossary tab (App.jsx:1838)
handleGlossaryCardClick(termId) ==
  \E preferredTab \in {RememberedTab(lastContentTab)} :
    /\ activeTab = "glossary"
    /\ focusTimers < MaxTimers
    /\ messageTimers < MaxTimers
    /\ selectedTermId' = termId
    /\ focusedTermId' = termId
    /\ activeTab' = preferredTab
    /\ lastContentTab' = preferredTab
    /\ IF termId \notin TabMentions[preferredTab]
       THEN /\ termLocateMessage' = "not in the last tab"
            /\ messageTimers' = messageTimers + 1
            /\ UNCHANGED <<pendingContentScrollTermId, focusTimers>>
       ELSE /\ termLocateMessage' = ""
            /\ pendingContentScrollTermId' = termId
            /\ focusTimers' = focusTimers + 1
            /\ UNCHANGED messageTimers
    /\ PageUnchanged

\* App.jsx:1339-1343  handleTermClickFromContent: a highlighted term of the
\* content is clicked
handleTermClickFromContent(termId) ==
  /\ activeTab \in ContentTabs
  /\ termId \in TabMentions[activeTab]
  /\ selectedTermId' = termId
  /\ activeTab' = "glossary"
  /\ UNCHANGED <<lastContentTab, focusedTermId, termLocateMessage,
                 pendingContentScrollTermId, focusTimers, messageTimers>>
  /\ PageUnchanged

\* App.jsx:1210-1226  the effect that scrolls to the located term
ContentScrollEffect ==
  /\ activeTab # "glossary"
  /\ pendingContentScrollTermId # NoTerm
  /\ pendingContentScrollTermId' = NoTerm
  /\ UNCHANGED <<activeTab, lastContentTab, selectedTermId, focusedTermId,
                 termLocateMessage, focusTimers, messageTimers>>
  /\ PageUnchanged

\* App.jsx:1333  a timeout set for FOCUS_HIGHLIGHT_MS fires
FocusTimerFires ==
  /\ focusTimers > 0
  /\ focusTimers' = focusTimers - 1
  /\ focusedTermId' = NoTerm
  /\ UNCHANGED <<activeTab, lastContentTab, selectedTermId, termLocateMessage,
                 pendingContentScrollTermId, messageTimers>>
  /\ PageUnchanged

\* App.jsx:1327  the timeout that clears the locate message fires
MessageTimerFires ==
  /\ messageTimers > 0
  /\ messageTimers' = messageTimers - 1
  /\ termLocateMessage' = ""
  /\ UNCHANGED <<activeTab, lastContentTab, selectedTermId, focusedTermId,
                 pendingContentScrollTermId, focusTimers>>
  /\ PageUnchanged

NextGlossary ==
  \/ SelectTab
  \/ \E termId \in TermIds : handleGlossaryCardClick(termId)
  \/ \E termId \in TermIds : handleTermClickFromContent(termId)
  \/ ContentScrollEffect
  \/ FocusTimerFires
  \/ MessageTimerFires

\* The browser runs every timeout that was set, and React every effect.
FairGlossary ==
  /\ WF_vars(FocusTimerFires)
  /\ WF_vars(MessageTimerFires)
  /\ WF_vars(ContentScrollEffect)

SpecGlossary == InitGlossary /\ [][NextGlossary]_vars /\ FairGlossary

\* Properties of the generation pipeline (checked under Spec)
\* ------------------------------------------------------------------------
Ended(i) == pc[i] \in {"done", "failed"}

\* C1: every invocation of transmuteVibeToSpec calls the client's generate
\* operation at most twice, whatever the client returns or throws and
\* however the invocations interleave: one generation call and at most one
\* repair call, the repair call only after the generation call.
C1_AtMostTwoCalls ==
  \A i \in Invocations :
    /\ calls[i] <= 2
    /\ calls[i] = Len(replies[i]) + (IF pc[i] \in {"gen1", "gen2"} THEN 1 ELSE 0)
    /\ pc[i] = "gen2" => calls[i] = 2
    /\ pc[i] = "gen1" => calls[i] = 1

\* An invocation has made both of its calls and ended while another one is
\* still waiting for an answer.
C1_Witness ==
  \E i, j \in Invocations :
    /\ i # j
    /\ Ended(i) /\ calls[i] = 2
    /\ pc[j] \in {"gen1", "gen2"}

\* C2: when the first answer and the repair answer both fail to parse, the
\* invocation has thrown one error after exactly 2 generate calls, and no
\* third call is in flight.
C2_BothUnparsable ==
  \A i \in Invocations :
    (Len(replies[i]) >= 2 /\ replies[i][1] = "unparsable" /\ replies[i][2] = "unparsable")
      => /\ pc[i] = "failed"
         /\ error[i] = TransmutationError
         /\ result[i] = NoResult
         /\ calls[i] = 2
         /\ Len(replies[i]) = 2
         /\ prompt[i] = NoPrompt

C2_Witness ==
  \E i \in Invocations :
    /\ replies[i] = <<"unparsable", "unparsable">>
    /\ pc[i] = "failed"
    /\ calls[i] = 2

\* C3: if the first answer, fence stripped, parses as JSON of any type, then
\* exactly one generate call is made, no repair call is issued, and the
\* invocation returns a normalized result.
C3_FirstParseReturns ==
  \A i \in Invocations :
    (Len(replies[i]) >= 1 /\ replies[i][1] = "parsed")
      => /\ calls[i] = 1
         /\ pc[i] = "done"
         /\ result[i].t = "result"

\* A first answer that parsed, and the invocation failed after its one call.
C3_Witness ==
  \E i \in Invocations :
    /\ replies[i] = <<"parsed">>
    /\ calls[i] = 1
    /\ pc[i] = "failed"
    /\ error[i] = TransmutationError

\* C4: every failure after the API-key check (a generate call throwing on
\* either attempt, or both answers unparsable) reaches the caller as one and
\* the same error, and the caller receives no result value.
C4_OneOpaqueError ==
  \A i \in Invocations :
    (pc[i] = "failed" /\ calls[i] >= 1)
      => /\ error[i] = TransmutationError
         /\ result[i] = NoResult

\* One invocation failed on a throwing call (the first or the repair call),
\* another on two unparsable answers.
C4_Witness ==
  \E i, j \in Invocations :
    /\ pc[i] = "failed" /\ pc[j] = "failed"
    /\ replies[i] \in {<<"threw">>, <<"unparsable", "threw">>}
    /\ replies[j] = <<"unparsable", "unparsable">>
    /\ error[i] = error[j]

\* ------------------------------------------------------------------------
\* Properties of the normalizer (checked under SpecNorm)
\* ------------------------------------------------------------------------
\* Every document the normalizer has returned so far.
Documents ==
  (IF nOut.t = "obj" THEN {nOut} ELSE {})
  \cup (IF nOut2.t = "obj" THEN {nOut2} ELSE {})
  \cup (IF nOut2.t = "result" THEN {nOut2.standard_output} ELSE {})

\* C5: for every JSON input value, normalizeStandardOutput and
\* normalizeResult return a result and never throw.
C5_NeverThrows ==
  /\ nPhase # "input" => nOut.t = "obj"
  /\ nPhase = "result" => nOut2.t = "result"

\* Both normalizers have thrown on an object input.
C5_Witness ==
  /\ nPhase = "result"
  /\ nRaw.t = "obj"
  /\ nOut.t = "throw"
  /\ nOut2.t = "throw"

\* C6: every normalized document has flowSteps of length exactly 5,
\* interviewQuestions, confirmQuestions, risks, testScenarios and todayTasks
\* of length exactly 3 each, and layerGuide of length exactly 5.
C6_FixedLengths ==
  \A doc \in Documents :
    /\ Len(Field(doc, K_FLOW).a) = 5
    /\ Len(Sub(doc, K_INTERVIEW, K_FOLLOW_UP).a) = 3
    /\ Len(Sub(doc, K_AMBIGUITIES, K_QUESTIONS).a) = 3
    /\ Len(Field(doc, K_RISKS).a) = 3
    /\ Len(Field(doc, K_TESTS).a) = 3
    /\ Len(Field(doc, K_NEXT).a) = 3
    /\ Len(Field(doc, K_LAYER_GUIDE).a) = 5

\* A source with more than 5 flow steps and fewer than 3 risks has been
\* normalized.
C6_Witness ==
  /\ nPhase = "normalized"
  /\ nOut.t = "obj"
  /\ nRaw.t = "obj"
  /\ K_FLOW \in DOMAIN nRaw.o
  /\ Len(toStringArray(nRaw.o[K_FLOW])) > 5
  /\ K_RISKS \in DOMAIN nRaw.o
  /\ Len(toStringArray(nRaw.o[K_RISKS])) < 3

\* C7: in every normalized document the completeness score is an integer
\* with 0 <= score <= 100, whether the source supplied it or it was computed.
C7_ScoreInRange ==
  \A doc \in Documents :
    LET score == Sub(doc, K_COMPLETENESS, K_SCORE)
    IN  /\ score.t = "num"
        /\ score.n10 % 10 = 0
        /\ 0 <= score.n10 /\ score.n10 <= 10 * 100

\* A supplied score outside the range, or a fractional one, has been
\* normalized.
C7_Witness ==
  /\ nPhase = "normalized"
  /\ nOut.t = "obj"
  /\ nRaw.t = "obj"
  /\ K_COMPLETENESS \in DOMAIN nRaw.o
  /\ LET given == Get(nRaw.o[K_COMPLETENESS], K_SCORE)
     IN  /\ given.t = "num"
         /\ given.n10 > 10 * 100 \/ given.n10 < 0 \/ given.n10 % 10 # 0

\* C8: normalization is idempotent: normalizing a normalized document yields
\* a document equal to it in every field.
C8_Idempotent ==
  nPhase = "renormalized" => nOut2 = nOut

\* A normalized document that its own normalization changed.
C8_Witness ==
  /\ nPhase = "renormalized"
  /\ nOut2.t = "obj"
  /\ nOut2 # nOut

FrameSource(raw) ==
  ObjectSource(IF isObject(raw) THEN raw ELSE EmptyObj, K_PROBLEM_FRAME, "problem_frame")

Slots(raw, doc) ==
  { [source |-> GetEither(IF isObject(raw) THEN raw ELSE EmptyObj,
                          K_SUMMARY, "one_line_summary"),
     placeholder |-> PH_SUMMARY, value |-> Field(doc, K_SUMMARY)],
    [source |-> GetEither(FrameSource(raw), K_WHO, "who"),
     placeholder |-> PH_WHO, value |-> Sub(doc, K_PROBLEM_FRAME, K_WHO)],
    [source |-> GetEither(FrameSource(raw), K_WHEN, "when"),
     placeholder |-> PH_WHEN, value |-> Sub(doc, K_PROBLEM_FRAME, K_WHEN)],
    [source |-> GetEither(FrameSource(raw), K_WHAT, "what"),
     placeholder |-> PH_WHAT, value |-> Sub(doc, K_PROBLEM_FRAME, K_WHAT)],
    [source |-> GetEither(FrameSource(raw), K_WHY, "why"),
     placeholder |-> PH_WHY, value |-> Sub(doc, K_PROBLEM_FRAME, K_WHY)],
    [source |-> GetEither(FrameSource(raw), K_SUCCESS, "success_criteria"),
     placeholder |-> PH_SUCCESS, value |-> Sub(doc, K_PROBLEM_FRAME, K_SUCCESS)] }

\* C10 as stated: in every normalized document the summary and each of the
\* five problemFrame slots is a non-empty string.
C10_NonEmpty ==
  \A doc \in Documents :
    /\ Field(doc, K_SUMMARY).t = "str" /\ Field(doc, K_SUMMARY).s # <<>>
    /\ \A k \in {K_WHO, K_WHEN, K_WHAT, K_WHY, K_SUCCESS} :
         /\ Sub(doc, K_PROBLEM_FRAME, k).t = "str"
         /\ Sub(doc, K_PROBLEM_FRAME, k).s # <<>>

\* C10, amended: in every normalized document the summary and each of the
\* five problemFrame slots is a string without surrounding whitespace.  A
\* missing or non-string source value is replaced by the field's non-empty
\* placeholder; a string source value is kept, trimmed, and the field is
\* empty exactly when that string is empty or blank.
C10_PlaceholderOrTrimmed ==
  /\ \A doc \in Documents :
       /\ Field(doc, K_SUMMARY).t = "str"
       /\ \A k \in {K_WHO, K_WHEN, K_WHAT, K_WHY, K_SUCCESS} :
            Sub(doc, K_PROBLEM_FRAME, k).t = "str"
  /\ (nPhase # "input" /\ nOut.t = "obj") =>
       \A slot \in Slots(nRaw, nOut) :
         /\ slot.placeholder # <<>>
         /\ slot.value.s = <<>> \/ (Head(slot.value.s) \notin WhiteSpace
                                    /\ slot.value.s[Len(slot.value.s)] \notin WhiteSpace)
         /\ slot.source.t # "str" => slot.value.s = slot.placeholder
         /\ slot.source.t = "str" =>
              /\ slot.value.s = Trim(slot.source.s)
              /\ slot.value.s = <<>> <=>
                   \A n \in 1..Len(slot.source.s) : slot.source.s[n] \in WhiteSpace

\* A blank summary has been normalized to the empty string.
C10_Witness ==
  /\ nPhase = "normalized"
  /\ nOut.t = "obj"
  /\ nRaw.t = "obj"
  /\ K_SUMMARY \in DOMAIN nRaw.o
  /\ nRaw.o[K_SUMMARY] = Blank
  /\ Field(nOut, K_SUMMARY).s = <<>>


\* The score the source supplies: completenessSource[K.SCORE] ?? .score
SuppliedScore(raw) ==
  GetEither(ObjectSource(IF isObject(raw) THEN raw ELSE EmptyObj,
                         K_COMPLETENESS, "completeness"),
            K_SCORE, "score")

C12_EmptyScoresLow ==
  (nPhase = "normalized" /\ nRaw = EmptyObj) =>
    /\ nOut.t = "obj"
    /\ Sub(nOut, K_COMPLETENESS, K_SCORE).t = "num"
    /\ Sub(nOut, K_COMPLETENESS, K_SCORE).n10 <= 20 * 10
    /\ Sub(nOut, K_COMPLETENESS, K_WARNINGS).t = "arr"
    /\ Len(Sub(nOut, K_COMPLETENESS, K_WARNINGS).a) >= 2

\* The empty object is normalized: six of the ten checks pass on the
\* placeholders and padded lists, four warnings are raised.
C12_Witness ==
  /\ nPhase = "normalized"
  /\ nRaw = EmptyObj
  /\ nOut.t = "obj"
  /\ Sub(nOut, K_COMPLETENESS, K_SCORE) = JInt(60)
  /\ Len(Sub(nOut, K_COMPLETENESS, K_WARNINGS).a) = 4


\* The list ["<label> 1", "<label> 2", "<label> 3"].
LabelTriple(label) ==
  JStrList(<< label \o <<SP, "1">>, label \o <<SP, "2">>, label \o <<SP, "3">> >>)

\* The four lists padded by toFixedLengthStringArray alone.
PaddedTriples(doc) ==
  /\ Sub(doc, K_AMBIGUITIES, K_QUESTIONS) = LabelTriple(L_QUESTIONS)
  /\ Field(doc, K_RISKS) = LabelTriple(L_RISKS)
  /\ Field(doc, K_TESTS) = LabelTriple(L_TESTS)
  /\ Field(doc, K_NEXT) = LabelTriple(L_NEXT)

\* C13: for the empty object {} each of interviewQuestions, confirmQuestions,
\* risks, testScenarios and todayTasks is ["<label> 1", "<label> 2",
\* "<label> 3"] with its own fallback label.
C13_AllLabelTriples ==
  (nPhase = "normalized" /\ nRaw = EmptyObj) =>
    /\ nOut.t = "obj"
    /\ PaddedTriples(nOut)
    /\ Sub(nOut, K_INTERVIEW, K_FOLLOW_UP) = LabelTriple(L_INTERVIEW)

\* C13, amended: for {} confirmQuestions, risks, testScenarios and todayTasks
\* are the label triples, while interviewQuestions holds the three fallback
\* questions about the core user, the core task and the success criterion.
C13_LabelTriplesButInterview ==
  (nPhase = "normalized" /\ nRaw = EmptyObj) =>
    /\ nOut.t = "obj"
    /\ PaddedTriples(nOut)
    /\ Sub(nOut, K_INTERVIEW, K_FOLLOW_UP) =
         JStrList(<< <<"ko:who-is-the-core-user-of-this-feature?">>,
                     <<"ko:what-is-the-first-core-task?">>,
                     <<"ko:how-is-the-success-criterion-defined?">> >>)

C13_Witness ==
  /\ nPhase = "normalized"
  /\ nRaw = EmptyObj
  /\ nOut.t = "obj"
  /\ Field(nOut, K_RISKS) = LabelTriple(L_RISKS)
  /\ Sub(nOut, K_INTERVIEW, K_FOLLOW_UP) # LabelTriple(L_INTERVIEW)


\* C14: a generate call that throws is not retried.  When the first call
\* throws, the invocation has failed after exactly 1 call and no repair call
\* is made; when the repair call throws, it has failed after exactly 2 calls.
C14_ThrowNotRetried ==
  \A i \in Invocations :
    \A k \in 1..Len(replies[i]) :
      replies[i][k] = "threw"
        => /\ Len(replies[i]) = k
           /\ calls[i] = k
           /\ pc[i] = "failed"
           /\ prompt[i] = NoPrompt
           /\ result[i] = NoResult

\* One invocation failed on its first call, another on its repair call.
C14_Witness ==
  \E i, j \in Invocations :
    /\ replies[i] = <<"threw">> /\ calls[i] = 1 /\ pc[i] = "failed"
    /\ replies[j] = <<"unparsable", "threw">> /\ calls[j] = 2 /\ pc[j] = "failed"


\* What the source supplies for the request variants and the impact lists.
RequestSupplied(raw, key) ==
  GetEither(ObjectSource(IF isObject(raw) THEN raw ELSE EmptyObj,
                         K_REQUEST_CONVERTER, "request_converter"),
            key, LegacyKey(key))

ImpactSupplied(raw, key) ==
  GetEither(ObjectSource(IF isObject(raw) THEN raw ELSE EmptyObj,
                         K_IMPACT, "impact_preview"),
            key, LegacyKey(key))

RequestKeys == {K_SHORT_REQUEST, K_STANDARD_REQUEST, K_DETAILED_REQUEST}
ImpactKeys == {K_IMPACT_SCREENS, K_IMPACT_PERMISSIONS, K_IMPACT_TESTS}

\* The six derived fields of a document are non-empty.
DerivedNonEmpty(doc) ==
  /\ \A k \in RequestKeys :
       /\ Sub(doc, K_REQUEST_CONVERTER, k).t = "str"
       /\ Sub(doc, K_REQUEST_CONVERTER, k).s # <<>>
  /\ \A k \in ImpactKeys :
       /\ Sub(doc, K_IMPACT, k).t = "arr"
       /\ Len(Sub(doc, K_IMPACT, k).a) > 0
       /\ \A i \in 1..Len(Sub(doc, K_IMPACT, k).a) : Sub(doc, K_IMPACT, k).a[i].t = "str"

\* The variants and lists synthesized from the document's own summary,
\* must-features, test scenarios, flow steps and permission rules.
SynthesizedRequest(doc, key) ==
  buildFallbackRequests(Field(doc, K_SUMMARY).s,
                        StrList(Sub(doc, K_FEATURES, K_MUST)),
                        StrList(Field(doc, K_TESTS)))[key]

SynthesizedImpact(doc, key) ==
  CASE key = K_IMPACT_SCREENS -> ImpactScreens(<<>>, StrList(Field(doc, K_FLOW)))
    [] key = K_IMPACT_PERMISSIONS -> ImpactPermissions(<<>>, Field(doc, K_PERMISSIONS).a)
    [] key = K_IMPACT_TESTS -> ImpactTests(<<>>, StrList(Field(doc, K_TESTS)))

\* C15: after normalization the short, standard and detailed requests are
\* non-empty strings and the impact screens, permissions and tests are
\* non-empty lists; each one the source supplied non-empty is kept as
\* supplied, and only the missing or empty ones are synthesized.
C15_KeptAsSupplied ==
  (nPhase # "input" /\ nOut.t = "obj") =>
    /\ DerivedNonEmpty(nOut)
    /\ \A k \in RequestKeys :
         LET given == RequestSupplied(nRaw, k)
         IN  IF given.t = "str" /\ given.s # <<>>
             THEN Sub(nOut, K_REQUEST_CONVERTER, k) = given
             ELSE Sub(nOut, K_REQUEST_CONVERTER, k).s = SynthesizedRequest(nOut, k)
    /\ \A k \in ImpactKeys :
         LET given == ImpactSupplied(nRaw, k)
         IN  IF given.t = "arr" /\ Len(given.a) > 0
             THEN Sub(nOut, K_IMPACT, k) = given
             ELSE StrList(Sub(nOut, K_IMPACT, k)) = SynthesizedImpact(nOut, k)

\* C15, amended: the six derived fields are non-empty; a supplied request
\* string is kept trimmed, and a supplied impact list is kept as its trimmed
\* non-empty string entries in source order; a field is synthesized exactly
\* when nothing usable remains of what was supplied.
C15_KeptTrimmed ==
  (nPhase # "input" /\ nOut.t = "obj") =>
    /\ DerivedNonEmpty(nOut)
    /\ \A k \in RequestKeys :
         LET given == RequestSupplied(nRaw, k)
             usable == IF given.t = "str" THEN Trim(given.s) ELSE <<>>
         IN  Sub(nOut, K_REQUEST_CONVERTER, k).s =
               IF usable # <<>> THEN usable ELSE SynthesizedRequest(nOut, k)
    /\ \A k \in ImpactKeys :
         LET given == ImpactSupplied(nRaw, k)
             strings == IF given.t = "arr"
                        THEN SelectSeq(given.a, LAMBDA v : v.t = "str" /\ Trim(v.s) # <<>>)
                        ELSE <<>>
             usable == [i \in 1..Len(strings) |-> Trim(strings[i].s)]
         IN  StrList(Sub(nOut, K_IMPACT, k)) =
               IF usable # <<>> THEN usable ELSE SynthesizedImpact(nOut, k)

\* A padded standard request is kept trimmed while the short request, not
\* supplied, is synthesized.
C15_Witness ==
  /\ nPhase = "normalized"
  /\ nOut.t = "obj"
  /\ RequestSupplied(nRaw, K_STANDARD_REQUEST) = Padded("st")
  /\ Sub(nOut, K_REQUEST_CONVERTER, K_STANDARD_REQUEST) = Text("st")
  /\ RequestSupplied(nRaw, K_SHORT_REQUEST) = Undef
  /\ Sub(nOut, K_REQUEST_CONVERTER, K_SHORT_REQUEST).s = SynthesizedRequest(nOut, K_SHORT_REQUEST)


\* The trimmed text of field key of a source entry ('' when the entry is not
\* an object or the field is not a string).
EntryText(entry, key) ==
  toSafeString(GetEither(SafeItem(entry), key, LegacyKey(key)), <<>>)

\* The source entries of a list section that are not empty in all of keys.
KeptEntries(source, keys) ==
  {i \in 1..Len(source) : \E key \in keys : EntryText(source[i], key) # <<>>}

\* The list out holds exactly the kept source entries, in source order, with
\* the texts of keys.
KeepsExactly(out, source, keys) ==
  LET kept == KeptEntries(source, keys)
      origin(j) == CHOOSE i \in kept : Cardinality({h \in kept : h <= i}) = j
  IN  /\ Len(out) = Cardinality(kept)
      /\ \A j \in 1..Len(out) :
           \A key \in keys : out[j].o[key] = JStr(EntryText(source[origin(j)], key))

SourceList(raw, key) ==
  ArraySource(IF isObject(raw) THEN raw ELSE EmptyObj, key, LegacyKey(key))

\* C16: in the normalized document a roles entry is dropped exactly when its
\* role and description are both empty, an input field exactly when name,
\* type and example are all empty, and a permission rule exactly when its
\* role and notes are both empty, whatever its four CRUD flags are; every
\* other entry is kept, in source order.
C16_DropsEmptyEntries ==
  (nPhase # "input" /\ nOut.t = "obj") =>
    /\ KeepsExactly(Field(nOut, K_ROLES).a, SourceList(nRaw, K_ROLES),
                    {K_ROLE, K_DESCRIPTION})
    /\ KeepsExactly(Field(nOut, K_INPUT_FIELDS).a, SourceList(nRaw, K_INPUT_FIELDS),
                    {K_NAME, K_TYPE, K_EXAMPLE})
    /\ KeepsExactly(Field(nOut, K_PERMISSIONS).a, SourceList(nRaw, K_PERMISSIONS),
                    {K_ROLE, K_NOTES})

\* Of five permission rules the first and the last are kept; one of the
\* dropped rules has its read and delete flags set.
C16_Witness ==
  /\ nPhase = "normalized"
  /\ nOut.t = "obj"
  /\ Len(SourceList(nRaw, K_PERMISSIONS)) = 5
  /\ toBoolean(Get(SafeItem(SourceList(nRaw, K_PERMISSIONS)[4]), K_READ), FALSE)
  /\ toBoolean(Get(SafeItem(SourceList(nRaw, K_PERMISSIONS)[4]), K_DELETE), FALSE)
  /\ KeptEntries(SourceList(nRaw, K_PERMISSIONS), {K_ROLE, K_NOTES}) = {1, 5}
  /\ Len(Field(nOut, K_PERMISSIONS).a) = 2
  /\ Field(nOut, K_PERMISSIONS).a[2].o[K_ROLE] = Text("Guest")
  /\ Len(SourceList(nRaw, K_ROLES)) = 4
  /\ Len(Field(nOut, K_ROLES).a) = 2


\* ------------------------------------------------------------------------
\* Properties of the App component (checked under SpecUI)
\* ------------------------------------------------------------------------
\* C17: after any sequence of save-key and remember-checkbox actions,
\* whenever 'remember on this device' is unchecked localStorage holds no API
\* key: unchecking removes the key at once, and saving a key while unchecked
\* writes to sessionStorage only.
C17_UncheckedNoLocalKey ==
  ~rememberThisDevice => localStorage = JNull

\* A key was saved with the checkbox unchecked: it is the key in use and
\* the sessionStorage item, and localStorage has no item.
C17_Witness ==
  /\ ~rememberThisDevice
  /\ ~isSettingsOpen
  /\ apiKey = <<"k2">>
  /\ sessionStorage = JStr(<<"k2">>)
  /\ localStorage = JNull

\* A result as normalizeResult returns it: a model name, a document with
\* every section, the thinking layer and the glossary.
CompleteResult(value) ==
  /\ value.t = "result"
  /\ value.model # <<>>
  /\ value.standard_output.t = "obj"
  /\ DOMAIN value.standard_output.o = SectionKeys
  /\ Len(value.glossary) >= Len(CoreTerms)
  /\ \A i \in 1..Len(value.glossary) : value.glossary[i].term # <<>>

\* C18: a document is displayed only when the status is 'success' and the
\* result is a complete normalized result; while the status is 'processing'
\* or 'error' the result is null.
C18_DocumentOnlyOnSuccess ==
  /\ uiResult # JNull => (status = "success" /\ CompleteResult(uiResult))
  /\ status \in {"processing", "error"} => uiResult = JNull

\* A transmute call has succeeded and its result is on display.
C18_Witness ==
  /\ status = "success"
  /\ uiResult # JNull
  /\ CompleteResult(uiResult)
  /\ Field(uiResult.standard_output, K_SUMMARY) # JStr(PH_SUMMARY)


\* ------------------------------------------------------------------------
\* Further properties of the normalizer (checked under SpecNorm)
\* ------------------------------------------------------------------------
\* C19: the glossary of a result is the 4 fixed core terms followed by one
\* term per input field for the first 8 input fields, in input-field order:
\* its length is 4 + min(8, number of normalized input fields), so between
\* 4 and 12.
C19_GlossaryShape ==
  (nPhase = "result" /\ nOut2.t = "result") =>
    LET fields == Field(nOut2.standard_output, K_INPUT_FIELDS).a
        taken == IF Len(fields) < 8 THEN Len(fields) ELSE 8
        glossary == nOut2.glossary
    IN  /\ Len(glossary) = 4 + taken
        /\ Len(glossary) >= 4 /\ Len(glossary) <= 12
        /\ \A i \in 1..4 : glossary[i] = CoreTerms[i]
        /\ [i \in 1..4 |-> glossary[i].term] =
             << <<"Parsing">>, <<"Schema">>, <<"JSON">>, <<"Validation">> >>
        /\ \A j \in 1..taken :
             glossary[4 + j].term =
               IF fields[j].o[K_NAME].s # <<>> THEN fields[j].o[K_NAME].s
               ELSE <<"ko:field">> \o NatToString(j)

\* Nine input fields are normalized and the glossary stops at the eighth.
C19_Witness ==
  /\ nPhase = "result"
  /\ nOut2.t = "result"
  /\ Len(Field(nOut2.standard_output, K_INPUT_FIELDS).a) = 9
  /\ Len(nOut2.glossary) = 12
  /\ nOut2.glossary[12].term = Field(nOut2.standard_output, K_INPUT_FIELDS).a[8].o[K_NAME].s


\* ------------------------------------------------------------------------
\* Further properties of the generation pipeline (checked under Spec)
\* ------------------------------------------------------------------------
\* C20: whenever a second generate call is made, its prompt is the repair
\* prompt (the repair instruction, the schema skeleton and the first raw
\* response verbatim) for every first response, including an empty one, and
\* never the generation prompt again.
C20_SecondCallRepairs ==
  \A i \in Invocations :
    pc[i] = "gen2" =>
      /\ firstText[i].has
      /\ prompt[i] = [kind |-> "repair", schema |-> "JSON_SCHEMA_HINT",
                      previous |-> firstText[i].text]

\* The first response was the empty text and the second call is in flight
\* with the generation prompt.
C20_Witness ==
  \E i \in Invocations :
    /\ pc[i] = "gen2"
    /\ calls[i] = 2
    /\ firstText[i] = [has |-> TRUE, text |-> <<>>]
    /\ prompt[i].kind = "generation"


\* A supplied score that is not numeric: absent, null, a boolean, an array,
\* an object, or a string that is empty or not a finite decimal literal.
NonNumericScore(value) ==
  \/ value.t \in {"undef", "null", "bool", "arr", "obj"}
  \/ /\ value.t = "str"
     /\ (Trim(value.s) = <<>> \/ StringToNumber(value.s).k # "num")

\* C21: if the source supplies no completeness score or a non-numeric one
\* (empty string, non-numeric string, boolean, array, object, null), the
\* bounded-integer coercion yields the null sentinel and the normalized score
\* is the computed one, round(100 * passed / 10) over the ten checks.
C21_NonNumericScoreComputed ==
  (nPhase # "input" /\ NonNumericScore(SuppliedScore(nRaw))) =>
    /\ toIntegerInRange(SuppliedScore(nRaw), 0, 100) = JNull
    /\ nOut.t = "obj"
    /\ Sub(nOut, K_COMPLETENESS, K_SCORE) = JInt(computeScoreFromSpec(nOut))

\* The supplied score is the empty string and the normalized score is 0,
\* not the computed one.
C21_Witness ==
  /\ nPhase = "normalized"
  /\ SuppliedScore(nRaw) = JStr(<<>>)
  /\ nOut.t = "obj"
  /\ Sub(nOut, K_COMPLETENESS, K_SCORE) = JInt(0)
  /\ computeScoreFromSpec(nOut) > 0


\* The value of a logical field as the claim chooses it: the primary key's
\* value when it has the expected type, otherwise the legacy key's value
\* when that has the expected type, otherwise nothing.
TypedChoice(raw, key, type) ==
  LET safe == IF isObject(raw) THEN raw ELSE EmptyObj
  IN  IF Get(safe, key).t = type THEN Get(safe, key)
      ELSE IF Get(safe, LegacyKey(key)).t = type THEN Get(safe, LegacyKey(key))
      ELSE Undef

\* C22: for each logical field the normalizer uses the primary key's value
\* when the primary key holds a usable value, otherwise the legacy key's
\* value; the field is defaulted only if neither key holds a value of the
\* expected type.
C22_LegacyWhenPrimaryUnusable ==
  (nPhase # "input" /\ nOut.t = "obj") =>
    /\ Field(nOut, K_SUMMARY) =
         JStr(toSafeString(TypedChoice(nRaw, K_SUMMARY, "str"), PH_SUMMARY))
    /\ Field(nOut, K_FLOW) =
         JStrList(toFixedLengthStringArray(TypedChoice(nRaw, K_FLOW, "arr"), 5, L_FLOW))
    /\ Field(nOut, K_RISKS) =
         JStrList(toFixedLengthStringArray(TypedChoice(nRaw, K_RISKS, "arr"), 3, L_RISKS))
    /\ Field(nOut, K_TESTS) =
         JStrList(toFixedLengthStringArray(TypedChoice(nRaw, K_TESTS, "arr"), 3, L_TESTS))
    /\ Field(nOut, K_NEXT) =
         JStrList(toFixedLengthStringArray(TypedChoice(nRaw, K_NEXT, "arr"), 3, L_NEXT))
    /\ Field(nOut, K_ROLES) =
         JArr(NormalizeRoles(IF TypedChoice(nRaw, K_ROLES, "arr").t = "arr"
                             THEN TypedChoice(nRaw, K_ROLES, "arr").a ELSE <<>>))

\* The primary summary key holds a number and the legacy key a string, and
\* the normalized summary is the placeholder.
C22_Witness ==
  /\ nPhase = "normalized"
  /\ nRaw.t = "obj"
  /\ Get(nRaw, K_SUMMARY) = JInt(7)
  /\ Get(nRaw, "one_line_summary") = Padded("s")
  /\ nOut.t = "obj"
  /\ Field(nOut, K_SUMMARY) = JStr(PH_SUMMARY)


CrudKeys == {K_READ, K_CREATE, K_UPDATE, K_DELETE}

\* The flag values the specification names as true: boolean true, a non-zero
\* number, and the truthy tokens after trimming and lower-casing.
StatedTrue(value) ==
  \/ value = JBool(TRUE)
  \/ value.t = "num" /\ value.n10 # 0
  \/ /\ value.t = "str"
     /\ ToLowerCase(Trim(value.s)) \in
          {<<"true">>, <<"yes">>, <<"y">>, <<"1">>, <<"o">>,
           <<"ko:allowed">>, <<"ko:possible">>}

\* C23: in the normalized document every CRUD flag of a permission rule is
\* the boolean true when the rule's source flag is boolean true, a non-zero
\* number or a truthy token (after trimming and lower-casing), and the boolean
\* false for every other source value, an absent flag included.
C23_CrudFlagsBoolean ==
  (nPhase # "input" /\ nOut.t = "obj") =>
    LET source == SourceList(nRaw, K_PERMISSIONS)
        out == Field(nOut, K_PERMISSIONS).a
        kept == KeptEntries(source, {K_ROLE, K_NOTES})
        origin(j) == CHOOSE i \in kept : Cardinality({h \in kept : h <= i}) = j
    IN  /\ Len(out) = Cardinality(kept)
        /\ \A j \in 1..Len(out) : \A key \in CrudKeys :
             out[j].o[key] =
               JBool(StatedTrue(GetEither(SafeItem(source[origin(j)]), key,
                                          LegacyKey(key))))

\* The seven rules carrying every kind of flag value were normalized: the
\* padded "Yes" and the negative number came out true, "maybe", the empty
\* list and the absent flag came out false.
C23_Witness ==
  /\ nPhase = "normalized"
  /\ isObject(nRaw)
  /\ Get(nRaw, K_PERMISSIONS) = JArr(CrudRules)
  /\ nOut.t = "obj"
  /\ Len(Field(nOut, K_PERMISSIONS).a) = 7
  /\ Field(nOut, K_PERMISSIONS).a[2].o[K_CREATE] = JBool(TRUE)
  /\ Field(nOut, K_PERMISSIONS).a[3].o[K_DELETE] = JBool(TRUE)
  /\ Field(nOut, K_PERMISSIONS).a[5].o[K_DELETE] = JBool(FALSE)
  /\ Field(nOut, K_PERMISSIONS).a[6].o[K_UPDATE] = JBool(FALSE)
  /\ Field(nOut, K_PERMISSIONS).a[7].o[K_READ] = JBool(FALSE)


\* The positions of the valid entries of a source list: strings that are
\* non-empty after trimming.
ValidPositions(source) ==
  IF source.t # "arr" THEN {}
  ELSE {i \in 1..Len(source.a) : source.a[i].t = "str" /\ Trim(source.a[i].s) # <<>>}

\* out is the coercion of source to exactly length entries with label.
CoercedTo(out, source, length, label) ==
  LET valid == ValidPositions(source)
      k == Cardinality(valid)
      origin(j) == CHOOSE i \in valid : Cardinality({h \in valid : h <= i}) = j
  IN  /\ Len(out) = length
      /\ \A j \in 1..Min2(length, k) : out[j] = JStr(Trim(source.a[origin(j)].s))
      /\ \A i \in (Min2(length, k) + 1)..length :
           out[i] = JStr(label \o <<SP>> \o NatToString(i))

\* C24: a fixed-length list of the normalized document (flow steps, risks,
\* test scenarios, next steps, confirmation questions) with length N and
\* label L starts with the first min(N, k) valid entries of its source, in
\* source order and trimmed, where k counts the source's valid entries; every
\* later position i holds "L i"; valid entries after the N-th are discarded;
\* a source that is no array gives "L 1" .. "L N".
C24_FixedLengthCoercion ==
  (nPhase # "input" /\ nOut.t = "obj") =>
    LET safe == IF isObject(nRaw) THEN nRaw ELSE EmptyObj
        ambiguities == ObjectSource(safe, K_AMBIGUITIES, LegacyKey(K_AMBIGUITIES))
    IN  /\ CoercedTo(Field(nOut, K_FLOW).a, GetEither(safe, K_FLOW, LegacyKey(K_FLOW)),
                     5, L_FLOW)
        /\ CoercedTo(Field(nOut, K_RISKS).a, GetEither(safe, K_RISKS, LegacyKey(K_RISKS)),
                     3, L_RISKS)
        /\ CoercedTo(Field(nOut, K_TESTS).a, GetEither(safe, K_TESTS, LegacyKey(K_TESTS)),
                     3, L_TESTS)
        /\ CoercedTo(Field(nOut, K_NEXT).a, GetEither(safe, K_NEXT, LegacyKey(K_NEXT)),
                     3, L_NEXT)
        /\ CoercedTo(Sub(nOut, K_AMBIGUITIES, K_QUESTIONS).a,
                     GetEither(ambiguities, K_QUESTIONS, LegacyKey(K_QUESTIONS)),
                     3, L_QUESTIONS)

\* A flow source of five entries with two valid ones was normalized: both
\* come first, trimmed, and positions 3 to 5 hold placeholders; in the same
\* document the four supplied risks were cut to three.
C24_Witness ==
  /\ nPhase = "normalized"
  /\ isObject(nRaw)
  /\ nOut.t = "obj"
  /\ Get(nRaw, K_FLOW) = JArr(<<Text("a"), JInt(5), JStr(<<>>), Padded("b"), JNull>>)
  /\ Field(nOut, K_FLOW).a =
       <<Text("a"), Text("b"), JStr(L_FLOW \o <<SP, "3">>),
         JStr(L_FLOW \o <<SP, "4">>), JStr(L_FLOW \o <<SP, "5">>)>>
  /\ Get(nRaw, K_RISKS) = JArr(Items("r", 4))
  /\ Field(nOut, K_RISKS).a = SubSeq(Items("r", 4), 1, 3)


SuppliedWarnings(raw) ==
  GetEither(ObjectSource(IF isObject(raw) THEN raw ELSE EmptyObj,
                         K_COMPLETENESS, "completeness"),
            K_WARNINGS, "warnings")

\* The failing checklist predicates of a document, in checklist order, each
\* with its warning, followed by the empty standard request. The flow check
\* (the seventh) has no warning of its own.
FlowCheck == 7

StatedWarnings(doc) ==
  LET checks == ScoreChecks(doc)
      table == << [fails |-> ~checks[1], w |-> W_SUMMARY],
                  [fails |-> ~checks[2], w |-> W_WHO],
                  [fails |-> ~checks[3], w |-> W_WHAT],
                  [fails |-> ~checks[4], w |-> W_SUCCESS],
                  [fails |-> ~checks[5], w |-> W_ROLES],
                  [fails |-> ~checks[6], w |-> W_MUST],
                  [fails |-> ~checks[8], w |-> W_INPUT_FIELDS],
                  [fails |-> ~checks[9], w |-> W_PERMISSIONS],
                  [fails |-> ~checks[10], w |-> W_TESTS],
                  [fails |-> Sub(doc, K_REQUEST_CONVERTER, K_STANDARD_REQUEST).s = <<>>,
                   w |-> W_STANDARD_REQUEST] >>
      failing == SelectSeq(table, LAMBDA e : e.fails)
  IN  [i \in 1..Len(failing) |-> JStr(failing[i].w)]

\* The statement of C25 as written: the supplied non-empty strings are used
\* as they are, and the computed list exactly when there is none.
C25_SuppliedWarningsUnchanged ==
  (nPhase # "input" /\ nOut.t = "obj") =>
    LET source == SuppliedWarnings(nRaw)
        strings == IF source.t = "arr"
                   THEN SelectSeq(source.a, LAMBDA v : v.t = "str" /\ v.s # <<>>)
                   ELSE <<>>
    IN  /\ ScoreChecks(nOut)[FlowCheck]
        /\ Sub(nOut, K_COMPLETENESS, K_WARNINGS).a =
             IF strings = <<>> THEN StatedWarnings(nOut) ELSE strings

\* C25 (amended): the warnings of the normalized document are the source's
\* warning strings, trimmed and without those that are empty after trimming,
\* when there is at least one such string; otherwise they are the computed
\* list, which holds one warning per failing predicate in fixed order: each
\* failing checklist predicate produces its warning (the flow check, which
\* has none, never fails), plus one for an empty standard request.
C25_SuppliedWarningsTrimmed ==
  (nPhase # "input" /\ nOut.t = "obj") =>
    LET source == SuppliedWarnings(nRaw)
        strings == IF source.t = "arr"
                   THEN SelectSeq(source.a, LAMBDA v : v.t = "str" /\ Trim(v.s) # <<>>)
                   ELSE <<>>
        trimmed == [i \in 1..Len(strings) |-> JStr(Trim(strings[i].s))]
    IN  /\ ScoreChecks(nOut)[FlowCheck]
        /\ Sub(nOut, K_COMPLETENESS, K_WARNINGS).a =
             IF trimmed = <<>> THEN StatedWarnings(nOut) ELSE trimmed

\* A padded warning next to an empty string and a number was supplied and
\* came out trimmed and alone.
C25_Witness ==
  /\ nPhase = "normalized"
  /\ nOut.t = "obj"
  /\ SuppliedWarnings(nRaw) = JArr(<<Padded("w"), JStr(<<>>), JInt(1)>>)
  /\ Sub(nOut, K_COMPLETENESS, K_WARNINGS).a = <<Text("w")>>


InFlight == {i \in Invocations : pc[i] \in {"fetching", "gen1", "gen2"}}

\* C27: in the page at most one invocation of the pipeline is in flight at
\* any time, and only while the status is 'processing'; an invocation starts
\* only in a step taken with a status other than 'processing', a non-blank
\* vibe and an API key, so the second starts only after the first has
\* resolved.
C27_OnePipelineInFlight ==
  /\ [](Cardinality(InFlight) <= 1 /\ (InFlight # {} => status = "processing"))
  /\ [][ (\E i \in Invocations : pc[i] = "idle" /\ pc'[i] # "idle")
           => (status # "processing" /\ Trim(vibe) # <<>> /\ apiKey # <<>>) ]_vars

\* The second invocation is in flight after the first has returned.
C27_Witness ==
  /\ pc[1] = "done"
  /\ pc[2] \in {"fetching", "gen1", "gen2"}
  /\ status = "processing"


\* C28: when every call to the external services eventually returns or
\* throws (the fairness of SpecPage), every state with status 'processing'
\* is eventually followed by a state with status 'success' or 'error'.
C28_ProcessingEnds ==
  (status = "processing") ~> (status \in {"success", "error"})

\* The page waits for an invocation that is on its repair call, after a
\* model-list fetch and an unparsable first answer.
C28_Witness ==
  /\ status = "processing"
  /\ \E i \in Invocations : pc[i] = "gen2" /\ calls[i] = 2 /\ fetches > 0


\* C29: the pipeline fetches the model list only in a step taken with an
\* empty cache, and once the cache is non-empty the number of fetches made by
\* the pipeline never grows again.
C29_FetchOnlyWhenEmpty ==
  /\ [][fetches' # fetches => availableModels = <<>>]_vars
  /\ \A n \in 0..MaxInvocations :
       []((availableModels # <<>> /\ fetches = n) => [](fetches = n))

\* The second invocation fetches the model list although the first one chose
\* its model from a fetched, non-empty list.
C29_Witness ==
  /\ pc[1] \in {"done", "failed"}
  /\ modelName[1] = "gemini-1.5-pro"
  /\ pc[2] = "fetching"
  /\ fetches = 2


\* ------------------------------------------------------------------------
\* Properties of the glossary cards (checked under SpecGlossary)
\* ------------------------------------------------------------------------
\* C30: after every click on a glossary card's locate action the focused
\* term eventually returns to null, whether the term is found in the target
\* tab or not.
C30_FocusReturnsToNull ==
  (focusedTermId # NoTerm) ~> (focusedTermId = NoTerm)

\* A term that the target tab does not mention was clicked: the message
\* timeout has fired and no timeout is pending, yet the term is still
\* focused.
C30_Witness ==
  /\ focusedTermId = "term-1"
  /\ selectedTermId = "term-1"
  /\ termLocateMessage = ""
  /\ focusTimers = 0
  /\ messageTimers = 0

=============================================================================
